---------------------------- MODULE Spec2Model ----------------------------
(***************************************************************************)
(* A model of the dataflow core of gpype: port-context negotiation         *)
(* (IONode.setup), the Framer, the Router, the Trigger (epoch extractor)   *)
(* and the FixedRateSource timing loop.                                    *)
(*                                                                         *)
(* Each component has its own specification (SpecNeg, SpecFramer,          *)
(* SpecRouter, SpecTrigger, SpecSched) over one tuple of variables; the    *)
(* variables of the other components stay at their initial value.          *)
(***************************************************************************)
EXTENDS Integers, Sequences, FiniteSets, TLC

VARIABLES
    \* ---- IONode.setup (port-context negotiation) ----
    neg_pc,         \* "new" before setup, "done" after
    neg_ports,      \* declared input port names, in declaration order
    neg_in0,        \* the input contexts as handed to setup (kept for reference)
    neg_in,         \* port_context_in: the caller's dictionaries (mutated in place)
    neg_out,        \* the merged context assigned to the output ports
    neg_result,     \* "ok" or the error raised by setup
    neg_pout,       \* the context of each output port, as read through
                    \* that port
    neg_obj,        \* which dict object each output port's context is
    neg_via,        \* the output port through which a context was changed
                    \* in place after setup, <<>> if none was
    \* ---- Trigger ----
    tr_pc,          \* "new", "ready" (setup done), "error" (setup or step raised)
    tr_cfg,         \* constructor arguments and the input port contexts
    tr_ctx_out,     \* the output port context returned by setup
    samples_pre,    \* self._samples_pre
    samples_post,   \* self._samples_post
    buf_input,      \* self._buf_input, the rolling buffer (row 1 is the oldest)
    countdown,      \* self._countdown, oldest first
    last_trigger,   \* self._last_trigger
    tr_out,         \* what the last step returned: <<>> for None, <<epoch>>
    tr_step,        \* number of steps made (history)
    tr_hits,        \* the steps on which a countdown was started (history)
    tr_epochs,      \* the epochs returned so far, with their step (history)
    tr_in,          \* the trigger value of the last step, <<>> before the
                    \* first step of a run (history)
    tr_base,        \* the number of steps made before the last setup
                    \* (history): the run's samples are tr_base + 1, ...
    tr_left,        \* the hits whose countdowns were pending at the last
                    \* stop (history)
    \* ---- Framer ----
    fr_pc,          \* "new", "ready" (setup done), "error" (setup raised)
    fr_cfg,         \* constructor argument and the input port context
    fr_ctx_out,     \* the output port context returned by setup
    framer_buf,     \* self._buf (row 1 is buffer row 0)
    fr_counter,     \* the node's step counter read by get_counter()
    fr_out,         \* what the last step returned: "None", or "buf" for self._buf
    fr_inputs,      \* the samples fed so far (history)
    fr_frames,      \* the frames returned so far, as read on return (history)
    fr_held,        \* the frames returned so far, as their holder reads
                    \* them now
    \* ---- Router ----
    rt_pc,          \* "new", "ready" (setup done), "error" (setup raised)
    rt_cfg,         \* the selectors and the input port contexts
    rt_map,         \* self._map: output port -> list of (input port, channel)
    rt_ctx_out,     \* the output port contexts returned by setup
    rt_ctx_in,      \* the input port contexts (port_context_in)
    rt_ctx_obj,     \* which dict object each output port's context is
    rt_steps,       \* the number of steps made so far (history)
    rt_data,        \* the input frames of the last step (a frame is a list of
                    \* columns, <<>> stands for a port without data)
    rt_out,         \* what the last step returned, or that it raised
    \* ---- FixedRateSource ----
    sc_pc,          \* "new" once the source is constructed
    sc_cfg,         \* the sampling rate (Hz) and the length of a tick (ms)
    running,        \* self._running
    thread,         \* self._thread: index into sc_threads, 0 for None
    time_start,     \* self._time_start: <<>> for None, else <<tick>>
    sc_threads,     \* the loop threads ever started: position in
                    \* _thread_function, sample_count, end of the sleep,
                    \* time of the last call of cycle(), number of calls
                    \* of cycle() (history)
    sc_main,        \* the controller: "idle", or "join" inside stop()
    sc_now,         \* the clock, in ticks
    sc_calls,       \* the start() and stop() calls made so far (history)
    \* ---- constructors ----
    cf_pc,          \* "args", "rejected" (the constructor raised),
                    \* "constructed", "setup", "stepped"
    cf_node,        \* the class constructed
    cf_args,        \* the constructor's arguments
    \* ---- FileWriter ----
    fw_main,        \* the caller of start() and stop(): "new", "started",
                    \* "join" (inside stop()), "stopped"
    file_queue,     \* self._file_queue
    stop_event,     \* self._stop_event
    worker,         \* the worker thread: its position in _file_worker and
                    \* the block it has taken from the queue
    file_handle,    \* self._file_handle: 0 for None, else the number of
                    \* the open file
    sample_counter, \* self._sample_counter
    fw_files,       \* what has been written to each file opened so far
    fw_enq,         \* the blocks step() has enqueued so far (history)
    fw_mark,        \* how many blocks had been enqueued when stop() was
                    \* last called (history)
    fw_pending,     \* how many enqueued blocks were not yet written when
                    \* stop() was last called (history)
    fw_dropped      \* the blocks taken from the queue and not written

negVars == <<neg_pc, neg_ports, neg_in0, neg_in, neg_out, neg_result,
             neg_pout, neg_obj, neg_via>>

trVars == <<tr_pc, tr_cfg, tr_ctx_out, samples_pre, samples_post, buf_input,
            countdown, last_trigger, tr_out, tr_step, tr_hits, tr_epochs,
            tr_in, tr_base, tr_left>>

frVars == <<fr_pc, fr_cfg, fr_ctx_out, framer_buf, fr_counter, fr_out,
            fr_inputs, fr_frames, fr_held>>

rtVars == <<rt_pc, rt_cfg, rt_map, rt_ctx_out, rt_ctx_in, rt_ctx_obj,
            rt_steps, rt_data, rt_out>>

scVars == <<sc_pc, sc_cfg, running, thread, time_start, sc_threads, sc_main,
            sc_now, sc_calls>>

cfVars == <<cf_pc, cf_node, cf_args>>

fwVars == <<fw_main, file_queue, stop_event, worker, file_handle,
            sample_counter, fw_files, fw_enq, fw_mark, fw_pending,
            fw_dropped>>

vars == <<negVars, trVars, frVars, rtVars, scVars, cfVars, fwVars>>

-----------------------------------------------------------------------------
(***************************************************************************)
(* Small helpers.                                                          *)
(***************************************************************************)
Range(s) == {s[i] : i \in DOMAIN s}

SetMax(S) == CHOOSE m \in S : \A x \in S : x <= m

\* An optional dictionary entry: <<>> when the key is absent, <<v>> when the
\* key holds v.
Opt(S) == {<<>>} \cup {<<v>> : v \in S}

Has(md, key) == md[key] # <<>>

-----------------------------------------------------------------------------
(***************************************************************************)
(* IONode.setup: validation of the input port contexts and construction of *)
(* the merged output context.                                              *)
(***************************************************************************)
ContextKeys == {"sampling_rate", "channel_count", "frame_size", "type"}

\* The values of one key over the ports that declare it, as Python collects
\* them: [md.get(key, None) for md in ...] filtered for "is not None".
DeclaredValues(ports, ctx, key) ==
    {ctx[p][key][1] : p \in {q \in Range(ports) : Has(ctx[q], key)}}

\* for context in port_context_in.values(): both keys must be present.
\* The first port (in declaration order) lacking a key decides the message.
RECURSIVE RequiredKeysError(_, _, _)
RequiredKeysError(ports, ctx, i) ==
    IF i > Len(ports) THEN "ok"
    ELSE IF ~Has(ctx[ports[i]], "channel_count") THEN "channel_count_missing"
    ELSE IF ~Has(ctx[ports[i]], "frame_size") THEN "frame_size_missing"
    ELSE RequiredKeysError(ports, ctx, i + 1)

SamplingRateOk(ports, ctx) ==
    Cardinality(DeclaredValues(ports, ctx, "sampling_rate")) = 1

\* channel_counts.append(1); len(set(channel_counts)) > 2 is the error.
\* (mutant: the implicit single channel is not appended)
ChannelCountsNoImplicitOne(ports, ctx) ==
    DeclaredValues(ports, ctx, "channel_count")

ChannelCounts(ports, ctx) ==
    DeclaredValues(ports, ctx, "channel_count") \cup {1}

ChannelCountOk(ports, ctx) == Cardinality(ChannelCounts(ports, ctx)) <= 2

\* md[cc_key] = max(channel_counts) for every port that declares the key.
Broadcast(ports, ctx) ==
    [p \in Range(ports) |->
        IF Has(ctx[p], "channel_count")
        THEN [ctx[p] EXCEPT !["channel_count"] =
                  <<SetMax(ChannelCounts(ports, ctx))>>]
        ELSE ctx[p]]

FrameSizeOk(ports, ctx) ==
    Cardinality(DeclaredValues(ports, ctx, "frame_size")) = 1

\* A type check that takes the wildcard for a type like any other.
TypeOkCountingAny(ports, ctx) ==
    Cardinality(DeclaredValues(ports, ctx, "type")) <= 1

\* types = [tp for tp in types if (tp != "Any" and tp is not None)]
TypeOk(ports, ctx) ==
    Cardinality(DeclaredValues(ports, ctx, "type") \ {"Any"}) <= 1

\* A merge in which the first declaring port decides a conflict.
MergeKeyFirstWins(ports, ctx, key) ==
    LET decl == {i \in 1..Len(ports) : Has(ctx[ports[i]], key)}
    IN  IF decl = {} THEN <<>>
        ELSE ctx[ports[CHOOSE i \in decl : \A j \in decl : i <= j]][key]

\* The merge of one key: <<>> when no port declares it, <<v>> for the single
\* or common value, <<"per_port", f>> for the per-port mapping.
MergeKey(ports, ctx, key) ==
    LET decl == {p \in Range(ports) : Has(ctx[p], key)}
        vals == {ctx[p][key][1] : p \in decl}
    IN  IF decl = {} THEN <<>>
        ELSE IF Cardinality(decl) = 1 \/ Cardinality(vals) = 1
             THEN <<CHOOSE v \in vals : TRUE>>
        ELSE <<"per_port", [p \in decl |-> ctx[p][key][1]]>>

MergeContexts(ports, ctx) ==
    [key \in ContextKeys |-> MergeKey(ports, ctx, key)]

NoContext == [key \in ContextKeys |-> <<>>]

\* A setup that compares the frame sizes before the sampling rates.
IONodeSetupFrameSizeFirst(ports, ctx) ==
    LET req == RequiredKeysError(ports, ctx, 1)
        bc  == Broadcast(ports, ctx)
    IN  IF req # "ok"
        THEN [result |-> req, ctx_in |-> ctx, ctx_out |-> NoContext]
        ELSE IF ~FrameSizeOk(ports, ctx)
        THEN [result |-> "frame_size", ctx_in |-> ctx, ctx_out |-> NoContext]
        ELSE IF ~SamplingRateOk(ports, ctx)
        THEN [result |-> "sampling_rate", ctx_in |-> ctx, ctx_out |-> NoContext]
        ELSE IF ~ChannelCountOk(ports, ctx)
        THEN [result |-> "channel_count", ctx_in |-> ctx, ctx_out |-> NoContext]
        ELSE IF ~TypeOk(ports, bc)
        THEN [result |-> "type", ctx_in |-> bc, ctx_out |-> NoContext]
        ELSE [result |-> "ok", ctx_in |-> bc,
              ctx_out |-> MergeContexts(ports, bc)]

\* The whole of IONode.setup: the result, the input contexts as setup leaves
\* them, and the context given to every output port.
IONodeSetup(ports, ctx) ==
    LET req == RequiredKeysError(ports, ctx, 1)
        bc  == Broadcast(ports, ctx)
    IN  IF req # "ok"
        THEN [result |-> req, ctx_in |-> ctx, ctx_out |-> NoContext]
        ELSE IF ~SamplingRateOk(ports, ctx)
        THEN [result |-> "sampling_rate", ctx_in |-> ctx, ctx_out |-> NoContext]
        ELSE IF ~ChannelCountOk(ports, ctx)
        THEN [result |-> "channel_count", ctx_in |-> ctx, ctx_out |-> NoContext]
        ELSE IF ~FrameSizeOk(ports, bc)
        THEN [result |-> "frame_size", ctx_in |-> bc, ctx_out |-> NoContext]
        ELSE IF ~TypeOk(ports, bc)
        THEN [result |-> "type", ctx_in |-> bc, ctx_out |-> NoContext]
        ELSE [result |-> "ok", ctx_in |-> bc,
              ctx_out |-> MergeContexts(ports, bc)]

-----------------------------------------------------------------------------
(***************************************************************************)
(* Specification SpecNeg: setup applied to one, two or three input ports.  *)
(***************************************************************************)
NegPortNames == <<"in1", "in2", "in3">>

SamplingRates == {250, 500}
ChannelCountValues == {1, 4, 8}
FrameSizes == {1, 2}
TypeNames == {"Any", "ndarray", "str"}

\* Contexts of a signal port.
SignalContexts ==
    [sampling_rate : Opt(SamplingRates), channel_count : Opt(ChannelCountValues),
     frame_size : Opt(FrameSizes), type : Opt(TypeNames)]

\* Contexts of a port that declares neither a rate nor a type (an event port).
EventContexts ==
    [sampling_rate : {<<>>}, channel_count : Opt(ChannelCountValues),
     frame_size : Opt({1}), type : {<<>>}]

\* The output ports of the node.
NegOutPortNames == <<"out1", "out2">>

\* The frame sizes a subclass writes into an output context.
UpdatedFrameSizes == {3, 4}

\* A setup that gives every output port a dict of its own.
PortContextObjectsApart(oports) ==
    [p \in Range(oports) |-> CHOOSE k \in 1..Len(oports) : oports[k] = p]

\* for op in self.config[op_key]: port_context_out[op[name_key]] = context
\* (the one dict built by the merge)
PortContextObjects(oports) == [p \in Range(oports) |-> 1]

NegIdle ==
    /\ neg_pc = "off"
    /\ neg_ports = <<>>
    /\ neg_in0 = <<>>
    /\ neg_in = <<>>
    /\ neg_out = NoContext
    /\ neg_result = "none"
    /\ neg_pout = <<>>
    /\ neg_obj = <<>>
    /\ neg_via = <<>>

NegStart ==
    /\ neg_pc = "new"
    /\ \E n \in 1..Len(NegPortNames) :
         /\ neg_ports = SubSeq(NegPortNames, 1, n)
         /\ neg_in \in {f \in [Range(SubSeq(NegPortNames, 1, n)) ->
                                  SignalContexts \cup EventContexts] :
                           /\ n >= 2 => f["in2"]["type"] \in {<<>>, <<"Any">>, <<"str">>}
                           /\ n >= 3 => f["in3"] \in EventContexts}
    /\ neg_in0 = neg_in
    /\ neg_out = NoContext
    /\ neg_result = "none"
    /\ neg_pout = <<>>
    /\ neg_obj = <<>>
    /\ neg_via = <<>>

IONode_setup ==
    /\ neg_pc = "new"
    /\ LET r == IONodeSetup(neg_ports, neg_in)
       IN  /\ neg_result' = r.result
           /\ neg_in' = r.ctx_in
           /\ neg_out' = r.ctx_out
           /\ neg_pout' = IF r.result # "ok" THEN <<>>
                          ELSE [p \in Range(NegOutPortNames) |-> r.ctx_out]
           /\ neg_obj' = IF r.result # "ok" THEN <<>>
                         ELSE PortContextObjects(NegOutPortNames)
    /\ neg_pc' = "done"
    /\ UNCHANGED <<neg_ports, neg_in0, neg_via>>
    /\ UNCHANGED <<trVars, frVars, rtVars, scVars, cfVars, fwVars>>

\* port_context_out[port][FRAME_SIZE] = frame_size_out, as the setup of a
\* subclass does after super().setup(): the dict of one output port is
\* changed in place, and every port whose context is that dict shows it.
OutputContext_update ==
    /\ neg_pc = "done"
    /\ neg_result = "ok"
    /\ \E port \in Range(NegOutPortNames), fsz \in UpdatedFrameSizes :
         /\ neg_via' = <<port>>
         /\ neg_pout' = [q \in DOMAIN neg_pout |->
                            IF neg_obj[q] = neg_obj[port]
                            THEN [neg_pout[q] EXCEPT
                                     !["frame_size"] = <<fsz>>]
                            ELSE neg_pout[q]]
    /\ neg_pc' = "updated"
    /\ UNCHANGED <<neg_ports, neg_in0, neg_in, neg_out, neg_result, neg_obj>>
    /\ UNCHANGED <<trVars, frVars, rtVars, scVars, cfVars, fwVars>>

-----------------------------------------------------------------------------
(***************************************************************************)
(* Trigger: the epoch extractor.                                           *)
(*                                                                         *)
(* Times are given in milliseconds and rates in Hz, so that the conversion *)
(* int(round(time * sampling_rate)) is computed on exact rationals.  The   *)
(* step only moves the data sample (it never looks at its value), so the   *)
(* sample fed on step t carries the value t: every row of the buffer then  *)
(* tells which sample it holds, and a zero is a row never written.         *)
(***************************************************************************)
\* Python's round(): to the nearest integer, ties to the even one.
RoundHalfEven(n, d) ==
    LET q == n \div d
        r == n % d
    IN  IF 2 * r < d THEN q
        ELSE IF 2 * r > d THEN q + 1
        ELSE IF q % 2 = 0 THEN q ELSE q + 1

\* int(round(time * sampling_rate)), time in seconds = time_ms / 1000.
SamplesOf(time_ms, rate) == RoundHalfEven(time_ms * rate, 1000)

Zeros(n) == [i \in 1..n |-> 0]

\* A setup that takes input frames of any size.
SingleSampleUnchecked(frame_size_in) == TRUE

\* if frame_size_in != 1: raise ValueError("Input frame size must be 1.")
\* (Framer.setup and Trigger.setup alike)
SingleSample(frame_size_in) == frame_size_in = 1

TriggerPorts == <<"in", "trigger">>

\* The contexts Trigger.setup receives: the signal port and the event port.
TriggerContexts(cfg) ==
    [p \in Range(TriggerPorts) |->
        IF p = "in"
        THEN [sampling_rate |-> <<cfg.sampling_rate>>,
              channel_count |-> <<cfg.channel_count>>,
              frame_size |-> <<cfg.frame_size_in>>,
              type |-> <<"ndarray">>]
        ELSE [sampling_rate |-> <<>>, channel_count |-> <<1>>,
              frame_size |-> <<1>>, type |-> <<>>]]

\* min(self._target) - 1
Sentinel(target) == SetMax({-x : x \in Range(target)}) * (-1) - 1

\* self._buf_input[:-1] = self._buf_input[1:]; self._buf_input[-1] = sample
\* (mutant: the new sample is written before the shift, so the shift
\*  duplicates the old last row)
ShiftInWrong(buf, sample) ==
    [i \in 1..Len(buf) |-> IF i < Len(buf) - 1 THEN buf[i + 1] ELSE sample]

ShiftIn(buf, sample) ==
    [i \in 1..Len(buf) |-> IF i < Len(buf) THEN buf[i + 1] ELSE sample]

\* if trigger != last: if trigger in target: countdown.append(samples_post)
\* (mutant: a countdown is started on every step that shows a target value)
StartCountdownOnLevel(cd, trigger, last, target, post) ==
    IF trigger \in Range(target) THEN Append(cd, post) ELSE cd

StartCountdown(cd, trigger, last, target, post) ==
    IF trigger # last /\ trigger \in Range(target) THEN Append(cd, post) ELSE cd

RemoveAt(s, i) == SubSeq(s, 1, i - 1) \o SubSeq(s, i + 1, Len(s))

\* for i in reversed(range(len(countdown))): decrement; the first countdown
\* found <= 0 is popped and the step returns at once.
\* (mutant: the list is walked oldest first)
RECURSIVE RunCountdownsForward(_, _)
RunCountdownsForward(cd, i) ==
    IF i = 0 \/ i > Len(cd) THEN [countdown |-> cd, emit |-> FALSE]
    ELSE LET dec == [cd EXCEPT ![i] = @ - 1]
         IN  IF dec[i] <= 0
             THEN [countdown |-> RemoveAt(dec, i), emit |-> TRUE]
             ELSE RunCountdownsForward(dec, IF i = Len(cd) THEN 0 ELSE i + 1)

RECURSIVE RunCountdownsFrom(_, _)
RunCountdownsFrom(cd, i) ==
    IF i = 0 THEN [countdown |-> cd, emit |-> FALSE]
    ELSE LET dec == [cd EXCEPT ![i] = @ - 1]
         IN  IF dec[i] <= 0
             THEN [countdown |-> RemoveAt(dec, i), emit |-> TRUE]
             ELSE RunCountdownsFrom(dec, i - 1)

\* (mutant: a countdown completes only below zero)
RECURSIVE RunCountdownsStrictFrom(_, _)
RunCountdownsStrictFrom(cd, i) ==
    IF i = 0 THEN [countdown |-> cd, emit |-> FALSE]
    ELSE LET dec == [cd EXCEPT ![i] = @ - 1]
         IN  IF dec[i] < 0
             THEN [countdown |-> RemoveAt(dec, i), emit |-> TRUE]
             ELSE RunCountdownsStrictFrom(dec, i - 1)

RunCountdownsStrict(cd) == RunCountdownsStrictFrom(cd, Len(cd))

RunCountdownsOldestFirst(cd) ==
    RunCountdownsForward(cd, IF Len(cd) = 0 THEN 0 ELSE 1)

RunCountdowns(cd) == RunCountdownsFrom(cd, Len(cd))

\* A step that returns the rolling buffer itself.
ReturnedArrayNoCopy(buf) == [alias |-> TRUE, value |-> buf]

\* return {PORT_OUT: self._buf_input.copy()}: a new array with the values of
\* the buffer, sharing no memory with it.
ReturnedArray(buf) == [alias |-> FALSE, value |-> buf]

\* The arrays returned so far as their holder sees them after the buffer
\* has been written in place: an array that shares the buffer's memory
\* shows the buffer's new values.
SeenAfterWrite(epochs, buf) ==
    [j \in 1..Len(epochs) |->
        IF epochs[j].alias THEN [epochs[j] EXCEPT !.epoch = buf]
        ELSE epochs[j]]

-----------------------------------------------------------------------------
(***************************************************************************)
(* Specification SpecTrigger.                                              *)
(***************************************************************************)
MaxSteps == 8

TriggerValues == {0, 1, 2}

TriggerConfigs ==
    [time_pre_ms : {250, 500},
     time_post_ms : {125, 250, 500, 625, 875},
     target : {<<1>>, <<1, 2>>},
     sampling_rate : {2, 4},
     channel_count : {8},
     frame_size_in : {1, 2}]

TrIdle ==
    /\ tr_pc = "off"
    /\ tr_cfg = <<>>
    /\ tr_ctx_out = NoContext
    /\ samples_pre = 0
    /\ samples_post = 0
    /\ buf_input = <<>>
    /\ countdown = <<>>
    /\ last_trigger = 0
    /\ tr_out = <<>>
    /\ tr_step = 0
    /\ tr_hits = <<>>
    /\ tr_epochs = <<>>
    /\ tr_in = <<>>
    /\ tr_base = 0
    /\ tr_left = <<>>

\* Trigger.__init__: time_pre and time_post are > 0; the state is empty.
TrStart ==
    /\ tr_pc = "new"
    /\ tr_cfg \in TriggerConfigs
    /\ tr_ctx_out = NoContext
    /\ samples_pre = 0
    /\ samples_post = 0
    /\ buf_input = <<>>
    /\ countdown = <<>>
    /\ last_trigger = 0
    /\ tr_out = <<>>
    /\ tr_step = 0
    /\ tr_hits = <<>>
    /\ tr_epochs = <<>>
    /\ tr_in = <<>>
    /\ tr_base = 0
    /\ tr_left = <<>>

\* A setup that keeps the countdowns of the run before.
ClearCountdownsKept(cd) == cd

\* self._countdown = []
ClearCountdowns(cd) == <<>>

\* Trigger.setup, at the first start of the pipeline and at every start
\* after a stop.  The samples and the hits, epochs and trigger values kept
\* for reference are those of the run that begins.
Trigger_setup ==
    /\ tr_pc \in {"new", "stopped"}
    /\ LET r    == IONodeSetup(TriggerPorts, TriggerContexts(tr_cfg))
           pre  == SamplesOf(tr_cfg.time_pre_ms, tr_cfg.sampling_rate)
           post == SamplesOf(tr_cfg.time_post_ms, tr_cfg.sampling_rate)
       IN  IF r.result # "ok" \/ ~SingleSample(tr_cfg.frame_size_in)
           THEN /\ tr_pc' = "error"
                /\ UNCHANGED <<tr_ctx_out, samples_pre, samples_post,
                               buf_input, countdown, last_trigger, tr_out,
                               tr_hits, tr_epochs, tr_in, tr_base>>
           ELSE /\ tr_pc' = "ready"
                /\ samples_pre' = pre
                /\ samples_post' = post
                /\ tr_ctx_out' = [r.ctx_out EXCEPT !["frame_size"] = <<pre + post>>]
                /\ buf_input' = Zeros(pre + post)
                /\ countdown' = ClearCountdowns(countdown)
                /\ last_trigger' = Sentinel(tr_cfg.target)
                /\ tr_out' = <<>>
                /\ tr_hits' = <<>>
                /\ tr_epochs' = <<>>
                /\ tr_in' = <<>>
                /\ tr_base' = tr_step
    /\ UNCHANGED <<tr_cfg, tr_step, tr_left>>
    /\ UNCHANGED <<negVars, frVars, rtVars, scVars, cfVars, fwVars>>

\* Trigger.step on sample number tr_step + 1 and one trigger value.
Trigger_step ==
    /\ tr_pc = "ready"
    /\ tr_step < MaxSteps
    /\ \E trigger \in TriggerValues :
         LET t   == tr_step + 1
             buf == ShiftIn(buf_input, t)
             cd1 == StartCountdown(countdown, trigger, last_trigger,
                                   tr_cfg.target, samples_post)
             run == RunCountdowns(cd1)
         IN  IF Len(buf_input) = 0
             THEN \* self._buf_input[-1] on an empty buffer: IndexError
                  /\ tr_pc' = "error"
                  /\ UNCHANGED <<buf_input, countdown, last_trigger, tr_out,
                                 tr_step, tr_hits, tr_epochs, tr_in>>
             ELSE /\ tr_pc' = "ready"
                  /\ buf_input' = buf
                  /\ last_trigger' = trigger
                  /\ countdown' = run.countdown
                  /\ tr_out' = IF run.emit THEN <<buf>> ELSE <<>>
                  /\ tr_step' = t
                  /\ tr_in' = <<trigger>>
                  /\ tr_hits' = IF Len(cd1) > Len(countdown)
                                THEN Append(tr_hits, t) ELSE tr_hits
                  /\ tr_epochs' =
                       LET seen == SeenAfterWrite(tr_epochs, buf)
                           ret  == ReturnedArray(buf)
                       IN  IF run.emit
                           THEN Append(seen, [step |-> t,
                                              epoch |-> ret.value,
                                              alias |-> ret.alias])
                           ELSE seen
    /\ UNCHANGED <<tr_cfg, tr_ctx_out, samples_pre, samples_post, tr_base,
                   tr_left>>
    /\ UNCHANGED <<negVars, frVars, rtVars, scVars, cfVars, fwVars>>

\* Pipeline.stop after at least one step of the run: the node is stepped no
\* more.  Trigger has no stop() of its own, its fields stay as they are.
Trigger_stop ==
    /\ tr_pc = "ready"
    /\ tr_step > tr_base
    /\ tr_pc' = "stopped"
    /\ tr_left' = [i \in 1..Len(countdown) |->
                      tr_hits[Len(tr_epochs) + i]]
    /\ UNCHANGED <<tr_cfg, tr_ctx_out, samples_pre, samples_post, buf_input,
                   countdown, last_trigger, tr_out, tr_step, tr_hits,
                   tr_epochs, tr_in, tr_base>>
    /\ UNCHANGED <<negVars, frVars, rtVars, scVars, cfVars, fwVars>>

-----------------------------------------------------------------------------
(***************************************************************************)
(* Framer: single samples into frames of frame_size rows.                  *)
(*                                                                         *)
(* get_counter() and is_decimation_step() belong to the node base class,   *)
(* which is not part of the sources at hand.  They are modelled after the  *)
(* description of the Frame Aggregator: the counter is the number of steps *)
(* the node has completed, and a step is a decimation step when it         *)
(* completes a block of decimation_factor steps ("the buffer has just been *)
(* filled").                                                               *)
(***************************************************************************)
GetCounter(counter) == counter

IsDecimationStep(counter, factor) == (counter + 1) % factor = 0

\* super().__init__(frame_size=frame_size, decimation_factor=frame_size)
\* (mutant: decimation_factor is not passed on and stays at 1)
DecimationFactorDefault(cfg) == 1

DecimationFactor(cfg) == cfg.frame_size

\* buf_idx = self.get_counter() % self._frame_size
\* (mutant: the position is taken from the counter after the step)
BufIdxNext(counter, size) == (GetCounter(counter) + 1) % size

BufIdx(counter, size) == GetCounter(counter) % size

\* self._buf[buf_idx, :] = data[PORT_IN][-1:, :]
FramerWrite(buf, idx, sample) == [buf EXCEPT ![idx + 1] = sample]

\* A step that returns a copy of the buffer.
FramerReturnedCopy(buf) == [alias |-> FALSE, value |-> buf]

\* return {PORT_OUT: self._buf}: the array returned is the buffer itself.
FramerReturned(buf) == [alias |-> TRUE, value |-> buf]

\* The returned arrays as their holder reads them after the buffer has been
\* written in place: an array that is the buffer shows its new values.
HeldAfterWrite(held, buf) ==
    [j \in 1..Len(held) |->
        IF held[j].alias THEN [held[j] EXCEPT !.value = buf] ELSE held[j]]

FramerPorts == <<"in">>

FramerContexts(cfg) ==
    [p \in Range(FramerPorts) |->
        [sampling_rate |-> <<250>>, channel_count |-> <<cfg.channel_count>>,
         frame_size |-> <<cfg.frame_size_in>>, type |-> <<"ndarray">>]]

-----------------------------------------------------------------------------
(***************************************************************************)
(* Specification SpecFramer.                                               *)
(***************************************************************************)
MaxFrameSize == 3

FramerSamples == {1, 2, 3}

FramerConfigs ==
    [frame_size : 1..MaxFrameSize, channel_count : {8}, frame_size_in : {1, 2}]

FrIdle ==
    /\ fr_pc = "off"
    /\ fr_cfg = <<>>
    /\ fr_ctx_out = NoContext
    /\ framer_buf = <<>>
    /\ fr_counter = 0
    /\ fr_out = "None"
    /\ fr_inputs = <<>>
    /\ fr_frames = <<>>
    /\ fr_held = <<>>

\* Framer.__init__: frame_size is an integer >= 1; self._buf = None.
FrStart ==
    /\ fr_pc = "new"
    /\ fr_cfg \in FramerConfigs
    /\ fr_ctx_out = NoContext
    /\ framer_buf = <<>>
    /\ fr_counter = 0
    /\ fr_out = "None"
    /\ fr_inputs = <<>>
    /\ fr_frames = <<>>
    /\ fr_held = <<>>

Framer_setup ==
    /\ fr_pc = "new"
    /\ LET r == IONodeSetup(FramerPorts, FramerContexts(fr_cfg))
       IN  IF r.result # "ok" \/ ~SingleSample(fr_cfg.frame_size_in)
           THEN /\ fr_pc' = "error"
                /\ UNCHANGED <<fr_ctx_out, framer_buf>>
           ELSE /\ fr_pc' = "ready"
                /\ fr_ctx_out' = [r.ctx_out EXCEPT
                                     !["frame_size"] = <<fr_cfg.frame_size>>]
                /\ framer_buf' = Zeros(fr_cfg.frame_size)
    /\ UNCHANGED <<fr_cfg, fr_counter, fr_out, fr_inputs, fr_frames, fr_held>>
    /\ UNCHANGED <<negVars, trVars, rtVars, scVars, cfVars, fwVars>>

\* Framer.step on one sample; the node counter advances with every step.
Framer_step ==
    /\ fr_pc = "ready"
    /\ Len(fr_inputs) < MaxSteps
    /\ \E sample \in FramerSamples :
         LET buf  == FramerWrite(framer_buf,
                                 BufIdx(fr_counter, fr_cfg.frame_size), sample)
             emit == IsDecimationStep(fr_counter, DecimationFactor(fr_cfg))
         IN  /\ framer_buf' = buf
             /\ fr_out' = IF emit THEN "buf" ELSE "None"
             /\ fr_inputs' = Append(fr_inputs, sample)
             /\ fr_frames' = IF emit THEN Append(fr_frames, buf) ELSE fr_frames
             /\ fr_held' = IF emit
                           THEN Append(HeldAfterWrite(fr_held, buf),
                                       FramerReturned(buf))
                           ELSE HeldAfterWrite(fr_held, buf)
    /\ fr_counter' = fr_counter + 1
    /\ UNCHANGED <<fr_pc, fr_cfg, fr_ctx_out>>
    /\ UNCHANGED <<negVars, trVars, rtVars, scVars, cfVars, fwVars>>

-----------------------------------------------------------------------------
(***************************************************************************)
(* Router: channel selection and routing.                                  *)
(*                                                                         *)
(* A selector is a list of channel indices; Router.ALL is the list [-1].   *)
(* A frame is kept as the list of its columns, a column as the list of its *)
(* rows.                                                                   *)
(***************************************************************************)
ALL == <<-1>>

\* Python and numpy indexing of a list of length n with index k.
PyIndexOk(k, n) == -n <= k /\ k < n

PyIndex(k, n) == IF k >= 0 THEN k + 1 ELSE n + k + 1

\* if sel == Router.ALL: sel = range(port_context_in[name][cc_key])
ResolveInput(sel, cc) == IF sel = ALL THEN [i \in 1..cc |-> i - 1] ELSE sel

\* input_map.extend([{name: [n]} for n in sel]), port after port
\* (mutant: the ports are taken last first)
RECURSIVE InputMapReversed(_, _)
InputMapReversed(inputs, k) ==
    IF k > Len(inputs) THEN <<>>
    ELSE LET sel == ResolveInput(inputs[k].sel, inputs[k].channel_count)
         IN  InputMapReversed(inputs, k + 1) \o
             [n \in 1..Len(sel) |-> [port |-> inputs[k].name, ch |-> sel[n]]]

RECURSIVE InputMapFrom(_, _)
InputMapFrom(inputs, k) ==
    IF k > Len(inputs) THEN <<>>
    ELSE LET sel == ResolveInput(inputs[k].sel, inputs[k].channel_count)
         IN  [n \in 1..Len(sel) |-> [port |-> inputs[k].name, ch |-> sel[n]]]
             \o InputMapFrom(inputs, k + 1)

\* if sel == Router.ALL: sel = range(len(input_map))
ResolveOutput(sel, input_map) ==
    IF sel = ALL THEN [i \in 1..Len(input_map) |-> i - 1] ELSE sel

\* [input_map[n] for n in sel] raises IndexError for an n outside the map.
OutputSelOk(sel, input_map) ==
    \A j \in 1..Len(ResolveOutput(sel, input_map)) :
        PyIndexOk(ResolveOutput(sel, input_map)[j], Len(input_map))

\* (mutant: the selector values are taken as channel numbers, not as
\*  positions of the input map)
OutputMappingByChannel(sel, input_map) ==
    LET idx == ResolveOutput(sel, input_map)
    IN  [j \in 1..Len(idx) |->
            [input_map[PyIndex(idx[j], Len(input_map))] EXCEPT !.ch = idx[j]]]

OutputMapping(sel, input_map) ==
    LET idx == ResolveOutput(sel, input_map)
    IN  [j \in 1..Len(idx) |-> input_map[PyIndex(idx[j], Len(input_map))]]

\* The number of output ports whose mapping is built before an IndexError.
RECURSIVE MappedOutputs(_, _, _)
MappedOutputs(outputs, input_map, k) ==
    IF k > Len(outputs) THEN Len(outputs)
    ELSE IF ~OutputSelOk(outputs[k].sel, input_map) THEN k - 1
    ELSE MappedOutputs(outputs, input_map, k + 1)

RouterInContexts(cfg) ==
    [p \in {cfg.inputs[k].name : k \in 1..Len(cfg.inputs)} |->
        LET k == CHOOSE i \in 1..Len(cfg.inputs) : cfg.inputs[i].name = p
        IN  [sampling_rate |-> cfg.inputs[k].sampling_rate,
             channel_count |-> <<cfg.inputs[k].channel_count>>,
             frame_size |-> <<cfg.inputs[k].frame_size>>,
             type |-> <<"ndarray">>]]

RouterInNames(cfg) == [k \in 1..Len(cfg.inputs) |-> cfg.inputs[k].name]

\* context[cc_key] = len(self._map[name])
\* (mutant: the length of the whole input map is reported)
OutChannelCountOfInputMap(mapping, input_map) == Len(input_map)

OutChannelCount(mapping, input_map) == Len(mapping)

\* A setup that broadcasts the channel counts as IONode.setup does.
RouterContextsBroadcast(names, ctx) == Broadcast(names, ctx)

\* Router.setup reads port_context_in (md.get, port_context_in[key1][key2])
\* and never assigns into it; IONode.setup is not called.
RouterContextsAfter(names, ctx) == ctx

\* context = {} inside the loop over the output ports: the k-th port gets
\* the k-th dict created.
RouterContextObject(k) == k

\* Router.setup: the mapping is built first, then the contexts are validated.
RouterSetup(cfg) ==
    LET input_map == InputMapFrom(cfg.inputs, 1)
        built     == MappedOutputs(cfg.outputs, input_map, 1)
        map       == [p \in {cfg.outputs[k].name : k \in 1..built} |->
                         LET k == CHOOSE i \in 1..built : cfg.outputs[i].name = p
                         IN  OutputMapping(cfg.outputs[k].sel, input_map)]
        ctx       == RouterInContexts(cfg)
        names     == RouterInNames(cfg)
        sr        == DeclaredValues(names, ctx, "sampling_rate")
        fsz       == DeclaredValues(names, ctx, "frame_size")
        tp        == DeclaredValues(names, ctx, "type") \ {"Any"}
        result    == IF built < Len(cfg.outputs) THEN "index"
                     ELSE IF Cardinality(sr) # 1 THEN "sampling_rate"
                     ELSE IF Cardinality(fsz) # 1 THEN "frame_size"
                     ELSE IF Cardinality(tp) > 1 THEN "type"
                     ELSE "ok"
    IN  [result |-> result,
         map |-> map,
         ctx_in |-> RouterContextsAfter(names, ctx),
         ctx_obj |->
            IF result # "ok" THEN <<>>
            ELSE [p \in DOMAIN map |->
                    RouterContextObject(
                        CHOOSE i \in 1..built : cfg.outputs[i].name = p)],
         ctx_out |->
            IF result # "ok" THEN <<>>
            ELSE [p \in DOMAIN map |->
                    [channel_count |-> <<OutChannelCount(map[p], input_map)>>,
                     sampling_rate |-> <<CHOOSE v \in sr : TRUE>>,
                     frame_size |-> <<CHOOSE v \in fsz : TRUE>>,
                     type |-> <<IF tp = {} THEN "Any" ELSE CHOOSE v \in tp : TRUE>>,
                     origins |-> {map[p][j].port : j \in 1..Len(map[p])}]]]

\* try: data[port_in][:, ch_in]  except Exception: np.zeros((1, 1))
ChannelArray(data, entry) ==
    IF entry.port \notin DOMAIN data THEN <<0>>
    ELSE IF data[entry.port] = <<>> THEN <<0>>
    ELSE IF ~PyIndexOk(entry.ch, Len(data[entry.port])) THEN <<0>>
    ELSE data[entry.port][PyIndex(entry.ch, Len(data[entry.port]))]

\* np.hstack raises for an empty list and for columns of different length.
HStackOk(arrays) ==
    /\ Len(arrays) >= 1
    /\ \A j \in 1..Len(arrays) : Len(arrays[j]) = Len(arrays[1])

\* Router.step
RouterStep(map, data) ==
    LET arrays == [p \in DOMAIN map |->
                      [j \in 1..Len(map[p]) |-> ChannelArray(data, map[p][j])]]
    IN  IF \A p \in DOMAIN map : HStackOk(arrays[p])
        THEN [result |-> "ok", frames |-> arrays]
        ELSE [result |-> "error", frames |-> <<>>]

\* A step that repeats the frames of the step before when a port delivered
\* nothing.
RouterStepHolding(last, map, data) ==
    IF last.result = "ok" /\ \E p \in DOMAIN data : data[p] = <<>>
    THEN last
    ELSE RouterStep(map, data)

\* data_out: dict = {} and channel_arrays = [] are created anew in every
\* call; the step reads self._map and data and assigns to no field, so the
\* result of the step before has no part in it.
RouterStepAfter(last, map, data) == RouterStep(map, data)

-----------------------------------------------------------------------------
(***************************************************************************)
(* Specification SpecRouter.                                               *)
(***************************************************************************)
\* The number of steps of the router that are followed.
MaxRouterSteps == 2

RouterInputSelectors == {ALL, <<0, 1>>, <<1>>, <<3, 4, 5>>}

RouterOutputSelectors == {ALL, <<0>>, <<1, 0>>, <<0, 0>>, <<4>>}

RouterInputPorts(names, rates) ==
    {f \in [1..Len(names) ->
               [name : Range(names), sel : RouterInputSelectors,
                channel_count : {3, 8}, frame_size : {1, 2},
                sampling_rate : rates]] :
        \A k \in 1..Len(names) : f[k].name = names[k]}

RouterOutputPorts(names) ==
    {f \in [1..Len(names) -> [name : Range(names), sel : RouterOutputSelectors]] :
        \A k \in 1..Len(names) : f[k].name = names[k]}

\* Router.__init__: one port is named "in" ("out"), several "in1", "in2", ...
RouterConfigs ==
    [inputs : RouterInputPorts(<<"in">>, {<<250>>})
                  \cup {f \in RouterInputPorts(<<"in1", "in2">>, {<<250>>, <<500>>}) :
                           f[1].sampling_rate = <<250>>},
     outputs : RouterOutputPorts(<<"out">>)
                  \cup RouterOutputPorts(<<"out1", "out2">>)]

\* The value of row r of channel c in the frame that port number i delivers
\* with stamp s: different cells hold different values, none is zero.
Cell(i, s, c, r) == 1000 * i + 100 * s + 10 * c + r

Frame(i, s, cc, rows) ==
    [c \in 1..cc |-> [r \in 1..rows |-> Cell(i, s, c - 1, r - 1)]]

\* The data of one step: every input port delivers a frame of its negotiated
\* shape, or nothing (stamp 0).
RouterData(cfg, stamps) ==
    [p \in {cfg.inputs[k].name : k \in 1..Len(cfg.inputs)} |->
        LET k == CHOOSE i \in 1..Len(cfg.inputs) : cfg.inputs[i].name = p
        IN  IF stamps[k] = 0 THEN <<>>
            ELSE Frame(k, stamps[k], cfg.inputs[k].channel_count,
                       cfg.inputs[k].frame_size)]

RtIdle ==
    /\ rt_pc = "off"
    /\ rt_cfg = <<>>
    /\ rt_map = <<>>
    /\ rt_ctx_out = <<>>
    /\ rt_ctx_in = <<>>
    /\ rt_ctx_obj = <<>>
    /\ rt_steps = 0
    /\ rt_data = <<>>
    /\ rt_out = [result |-> "none", frames |-> <<>>]

\* Router.__init__: self._map = {}
RtStart ==
    /\ rt_pc = "new"
    /\ rt_cfg \in RouterConfigs
    /\ rt_map = <<>>
    /\ rt_ctx_out = <<>>
    /\ rt_ctx_in = RouterInContexts(rt_cfg)
    /\ rt_ctx_obj = <<>>
    /\ rt_steps = 0
    /\ rt_data = <<>>
    /\ rt_out = [result |-> "none", frames |-> <<>>]

Router_setup ==
    /\ rt_pc = "new"
    /\ LET r == RouterSetup(rt_cfg)
       IN  /\ rt_pc' = IF r.result = "ok" THEN "ready" ELSE r.result
           /\ rt_map' = r.map
           /\ rt_ctx_out' = r.ctx_out
           /\ rt_ctx_in' = r.ctx_in
           /\ rt_ctx_obj' = r.ctx_obj
    /\ UNCHANGED <<rt_cfg, rt_steps, rt_data, rt_out>>
    /\ UNCHANGED <<negVars, trVars, frVars, scVars, cfVars, fwVars>>

Router_step ==
    /\ rt_pc = "ready"
    /\ rt_steps < MaxRouterSteps
    /\ \E stamps \in [1..Len(rt_cfg.inputs) -> {0, 1, 2}] :
         /\ rt_data' = RouterData(rt_cfg, stamps)
         /\ rt_out' = RouterStepAfter(rt_out, rt_map,
                                      RouterData(rt_cfg, stamps))
    /\ rt_steps' = rt_steps + 1
    /\ UNCHANGED <<rt_pc, rt_cfg, rt_map, rt_ctx_out, rt_ctx_in, rt_ctx_obj>>
    /\ UNCHANGED <<negVars, trVars, frVars, scVars, cfVars, fwVars>>

-----------------------------------------------------------------------------
(***************************************************************************)
(* FixedRateSource: the timing loop and its lifecycle.                     *)
(*                                                                         *)
(* Time is counted in ticks of unit_ms milliseconds; time.time() reads the *)
(* tick count.  The configurations are chosen so that a sample period is a *)
(* whole number of ticks.  start() and stop() are called by one controller *)
(* (the pipeline), one call at a time; the loop threads run beside it.     *)
(* time.sleep() and Thread.join(timeout) last at least the requested time, *)
(* cycle() lasts any time.  Source.start() and Source.stop() of the base   *)
(* class keep no state of the timing loop and are left out.                *)
(***************************************************************************)
\* self._thread.join(timeout=0.5)
JoinTimeoutMs == 500

\* if sleep_time > 0.001
SleepThresholdMs == 1

\* A loop that runs at twice the configured rate.
SampleTimeHalved(cfg, sample_count) ==
    (sample_count * 500) \div (cfg.rate * cfg.unit_ms)

\* sample_count / rate, in ticks.
SampleTime(cfg, sample_count) ==
    (sample_count * 1000) \div (cfg.rate * cfg.unit_ms)

\* expected_next_sample_time = self._time_start + sample_count / rate
ExpectedNextSampleTime(cfg, start, sample_count) ==
    start + SampleTime(cfg, sample_count)

\* sleep_time = expected_next_sample_time - current_time, in ticks.
SleepTime(cfg, start, sample_count, current_time) ==
    ExpectedNextSampleTime(cfg, start, sample_count) - current_time

\* A loop that sleeps for every wait, however short.
SleepsWhenPositive(cfg, sleep_time) == sleep_time > 0

\* if sleep_time > 0.001: time.sleep(sleep_time)
Sleeps(cfg, sleep_time) == sleep_time * cfg.unit_ms > SleepThresholdMs

\* The deadline of join(timeout=0.5) begun at tick now.
JoinDeadline(cfg, now) == now + JoinTimeoutMs \div cfg.unit_ms

\* A loop that never looks at the flag.
LoopTestTrue(flag) == TRUE

\* while self._running
LoopTest(flag) == flag

\* Thread.is_alive()
IsAlive(threads, t) ==
    /\ t \in 1..Len(threads)
    /\ threads[t].pc # "done"

(***************************************************************************)
(* Specification SpecSched.                                                *)
(***************************************************************************)
MaxTime == 5

MaxCalls == 3

SchedConfigs == { [unit_ms |-> 250, rate |-> 1],
                  [unit_ms |-> 250, rate |-> 2],
                  [unit_ms |-> 250, rate |-> 4],
                  [unit_ms |-> 1, rate |-> 250],
                  [unit_ms |-> 1, rate |-> 500] }

SchedIdle ==
    /\ sc_pc = "off"
    /\ sc_cfg = <<>>
    /\ running = FALSE
    /\ thread = 0
    /\ time_start = <<>>
    /\ sc_threads = <<>>
    /\ sc_main = [pc |-> "idle", deadline |-> 0]
    /\ sc_now = 0
    /\ sc_calls = <<>>

\* FixedRateSource.__init__
SchedStart ==
    /\ sc_pc = "new"
    /\ sc_cfg \in SchedConfigs
    /\ running = FALSE
    /\ thread = 0
    /\ time_start = <<>>
    /\ sc_threads = <<>>
    /\ sc_main = [pc |-> "idle", deadline |-> 0]
    /\ sc_now = 0
    /\ sc_calls = <<>>

\* FixedRateSource.start
FixedRateSource_start ==
    /\ sc_pc = "new"
    /\ sc_main.pc = "idle"
    /\ Len(sc_calls) < MaxCalls
    /\ sc_calls' = Append(sc_calls, "start")
    /\ IF ~running
       THEN /\ running' = TRUE
            /\ sc_threads' = Append(sc_threads,
                                    [pc |-> "enter", sample_count |-> 0,
                                     wake |-> 0, cycle_at |-> 0,
                                     cycles |-> 0])
            /\ thread' = Len(sc_threads) + 1
       ELSE UNCHANGED <<running, sc_threads, thread>>
    /\ UNCHANGED <<sc_pc, sc_cfg, time_start, sc_main, sc_now>>
    /\ UNCHANGED <<negVars, trVars, frVars, rtVars, cfVars, fwVars>>

\* FixedRateSource.stop, up to the join.
FixedRateSource_stop ==
    /\ sc_pc = "new"
    /\ sc_main.pc = "idle"
    /\ Len(sc_calls) < MaxCalls
    /\ sc_calls' = Append(sc_calls, "stop")
    /\ IF running
       THEN /\ running' = FALSE
            /\ IF thread # 0 /\ IsAlive(sc_threads, thread)
               THEN sc_main' = [pc |-> "join",
                                deadline |-> JoinDeadline(sc_cfg, sc_now)]
               ELSE UNCHANGED sc_main
       ELSE UNCHANGED <<running, sc_main>>
    /\ UNCHANGED <<sc_pc, sc_cfg, thread, time_start, sc_threads, sc_now>>
    /\ UNCHANGED <<negVars, trVars, frVars, rtVars, cfVars, fwVars>>

\* self._thread.join(timeout=0.5) returns: the thread has ended, or the
\* timeout has passed.
FixedRateSource_stop_joined ==
    /\ sc_main.pc = "join"
    /\ \/ ~IsAlive(sc_threads, thread)
       \/ sc_now >= sc_main.deadline
    /\ sc_main' = [pc |-> "idle", deadline |-> 0]
    /\ UNCHANGED <<sc_pc, sc_cfg, running, thread, time_start, sc_threads,
                   sc_now, sc_calls>>
    /\ UNCHANGED <<negVars, trVars, frVars, rtVars, cfVars, fwVars>>

\* _thread_function up to the loop: self._time_start is set only when it is
\* still None.
ThreadFunction_enter(t) ==
    /\ sc_threads[t].pc = "enter"
    /\ time_start' = IF time_start = <<>> THEN <<sc_now>> ELSE time_start
    /\ sc_threads' = [sc_threads EXCEPT ![t].pc = "loop",
                                        ![t].sample_count = 0]
    /\ UNCHANGED <<sc_pc, sc_cfg, running, thread, sc_main, sc_now, sc_calls>>
    /\ UNCHANGED <<negVars, trVars, frVars, rtVars, cfVars, fwVars>>

\* One pass of "while self._running" up to the sleep or, without a sleep, to
\* the call of cycle().  Iterations whose sample time lies beyond MaxTime
\* are not begun.
ThreadFunction_iterate(t) ==
    /\ sc_threads[t].pc = "loop"
    /\ LoopTest(running) =>
         ExpectedNextSampleTime(sc_cfg, time_start[1],
                                sc_threads[t].sample_count + 1) <= MaxTime
    /\ IF LoopTest(running)
       THEN LET n == sc_threads[t].sample_count + 1
                sleep_time == SleepTime(sc_cfg, time_start[1], n, sc_now)
            IN  sc_threads' =
                  [sc_threads EXCEPT
                     ![t].sample_count = n,
                     ![t].pc = IF Sleeps(sc_cfg, sleep_time)
                               THEN "sleep" ELSE "cycle",
                     ![t].wake = IF Sleeps(sc_cfg, sleep_time)
                                 THEN sc_now + sleep_time ELSE 0,
                     ![t].cycle_at = IF Sleeps(sc_cfg, sleep_time)
                                     THEN @ ELSE sc_now,
                     ![t].cycles = IF Sleeps(sc_cfg, sleep_time)
                                   THEN @ ELSE @ + 1]
       ELSE sc_threads' = [sc_threads EXCEPT ![t].pc = "done"]
    /\ UNCHANGED <<sc_pc, sc_cfg, running, thread, time_start, sc_main,
                   sc_now, sc_calls>>
    /\ UNCHANGED <<negVars, trVars, frVars, rtVars, cfVars, fwVars>>

\* time.sleep(sleep_time) returns and the thread calls self.cycle().
ThreadFunction_wake(t) ==
    /\ sc_threads[t].pc = "sleep"
    /\ sc_now >= sc_threads[t].wake
    /\ sc_threads' = [sc_threads EXCEPT ![t].pc = "cycle", ![t].wake = 0,
                                        ![t].cycle_at = sc_now,
                                        ![t].cycles = @ + 1]
    /\ UNCHANGED <<sc_pc, sc_cfg, running, thread, time_start, sc_main,
                   sc_now, sc_calls>>
    /\ UNCHANGED <<negVars, trVars, frVars, rtVars, cfVars, fwVars>>

\* self.cycle() returns.
ThreadFunction_cycled(t) ==
    /\ sc_threads[t].pc = "cycle"
    /\ sc_threads' = [sc_threads EXCEPT ![t].pc = "loop"]
    /\ UNCHANGED <<sc_pc, sc_cfg, running, thread, time_start, sc_main,
                   sc_now, sc_calls>>
    /\ UNCHANGED <<negVars, trVars, frVars, rtVars, cfVars, fwVars>>

\* The clock advances by one tick.
Tick ==
    /\ sc_pc = "new"
    /\ sc_now < MaxTime
    /\ sc_now' = sc_now + 1
    /\ UNCHANGED <<sc_pc, sc_cfg, running, thread, time_start, sc_threads,
                   sc_main, sc_calls>>
    /\ UNCHANGED <<negVars, trVars, frVars, rtVars, cfVars, fwVars>>

(***************************************************************************)
(* Specification SpecTimed: the timing loop left running on a machine that *)
(* is fast enough.  The steps of the loop take no time and time.sleep()    *)
(* returns on time, so the clock advances only when no thread has a step   *)
(* to take; the only delays are those of cycle(), which lasts up to        *)
(* MaxCycleDelay ticks.                                                    *)
(***************************************************************************)
MaxCycleDelay == 3

\* Thread t has a step to take before the clock may advance.
Urgent(t) ==
    \/ sc_threads[t].pc \in {"enter", "loop"}
    \/ sc_threads[t].pc = "sleep" /\ sc_now >= sc_threads[t].wake
    \/ sc_threads[t].pc = "cycle"
         /\ sc_now - sc_threads[t].cycle_at >= MaxCycleDelay

TimedTick ==
    /\ \A t \in 1..Len(sc_threads) : ~Urgent(t)
    /\ Tick

-----------------------------------------------------------------------------
(***************************************************************************)
(* Constructors: the validation of the parameters of a Framer, a Trigger   *)
(* and a FixedRateSource.                                                  *)
(*                                                                         *)
(* A number is kept with its Python type and its value in thousandths;     *)
(* None is an argument left out.                                           *)
(***************************************************************************)
None == [type |-> "None", milli |-> 0]

IntOf(n) == [type |-> "int", milli |-> 1000 * n]

FloatOf(milli) == [type |-> "float", milli |-> milli]

\* Trigger.DEFAULT_TIME_PRE and Trigger.DEFAULT_TIME_POST, in thousandths.
DefaultTimePre == FloatOf(700)

DefaultTimePost == FloatOf(200)

\* if x is None: x = default
OrDefault(x, default) == IF x = None THEN default ELSE x

\* A Framer that takes any integer for a frame size.
FramerCtorNoRangeCheck(args) ==
    LET frame_size == OrDefault(args.frame_size, IntOf(1))
    IN  IF frame_size.type # "int" THEN "frame_size must be integer."
        ELSE "ok"

\* Framer.__init__: the validation of frame_size.
FramerCtor(args) ==
    LET frame_size == OrDefault(args.frame_size, IntOf(1))
    IN  IF frame_size.type # "int" THEN "frame_size must be integer."
        ELSE IF frame_size.milli < 1000
        THEN "frame_size must be greater or equal 1."
        ELSE "ok"

\* Trigger.__init__: the validation of time_pre and time_post.
TriggerCtor(args) ==
    LET time_pre  == OrDefault(args.time_pre, DefaultTimePre)
        time_post == OrDefault(args.time_post, DefaultTimePost)
    IN  IF time_pre.milli <= 0 THEN "time_pre must be greater than 0."
        ELSE IF time_post.milli <= 0 THEN "time_post must be greater than 0."
        ELSE "ok"

\* FixedRateSource.Configuration.__init__: the validation of sampling_rate.
ConfigurationInit(args) ==
    IF args.sampling_rate.milli <= 0
    THEN "sampling_rate must be greater than zero."
    ELSE "ok"

\* FixedRateSource.__init__ hands its arguments to Source.__init__, which
\* belongs to the base classes; it is taken to build the node's
\* Configuration from them, so that the validation runs at construction.
SourceCtor(args) == ConfigurationInit(args)

FixedRateSourceCtor(args) == SourceCtor(args)

(***************************************************************************)
(* Specification SpecConfig.                                               *)
(***************************************************************************)
ConfigNumbers ==
    {None, IntOf(-1), IntOf(0), IntOf(1), IntOf(2), FloatOf(-500), FloatOf(0), FloatOf(1),
     FloatOf(1500), FloatOf(2000)}

ConfigArgs(node) ==
    IF node = "Framer" THEN [frame_size : ConfigNumbers]
    ELSE IF node = "Trigger"
    THEN [time_pre : ConfigNumbers, time_post : ConfigNumbers]
    ELSE [sampling_rate : ConfigNumbers \ {None}]

CfIdle ==
    /\ cf_pc = "off"
    /\ cf_node = "none"
    /\ cf_args = <<>>

CfStart ==
    /\ cf_pc = "args"
    /\ cf_node \in {"Framer", "Trigger", "FixedRateSource"}
    /\ cf_args \in ConfigArgs(cf_node)

\* The constructor: it raises, and no node exists, or it returns the node.
Node_init ==
    /\ cf_pc = "args"
    /\ LET r == IF cf_node = "Framer" THEN FramerCtor(cf_args)
                ELSE IF cf_node = "Trigger" THEN TriggerCtor(cf_args)
                ELSE FixedRateSourceCtor(cf_args)
       IN  cf_pc' = IF r = "ok" THEN "constructed" ELSE "rejected"
    /\ UNCHANGED <<cf_node, cf_args>>
    /\ UNCHANGED <<negVars, trVars, frVars, rtVars, scVars, fwVars>>

\* setup of the constructed node.
Node_setup ==
    /\ cf_pc = "constructed"
    /\ cf_pc' = "setup"
    /\ UNCHANGED <<cf_node, cf_args>>
    /\ UNCHANGED <<negVars, trVars, frVars, rtVars, scVars, fwVars>>

\* A step (for a source: a cycle) of the node that was set up.
Node_step ==
    /\ cf_pc \in {"setup", "stepped"}
    /\ cf_pc' = "stepped"
    /\ UNCHANGED <<cf_node, cf_args>>
    /\ UNCHANGED <<negVars, trVars, frVars, rtVars, scVars, fwVars>>

-----------------------------------------------------------------------------
(***************************************************************************)
(* FileWriter: step() puts blocks on a queue, a worker thread writes them  *)
(* to the file.                                                            *)
(*                                                                         *)
(* start() and stop() are called in turn by one caller (the pipeline);     *)
(* step() is called by the thread that runs the pipeline, also while       *)
(* stop() waits for the worker.  A block is its number and its rows; what  *)
(* is written for a block is the header flag, the first row index and the  *)
(* block.                                                                  *)
(***************************************************************************)
\* A worker that stops as soon as the event is set.
WorkerContinuesUntilStop(event, q) == ~event

\* while not self._stop_event.is_set() or not self._file_queue.empty()
WorkerContinues(event, q) == ~event \/ q # <<>>

\* The lines np.savetxt writes for a block: the header with the first block
\* ever (self._sample_counter == 0), the indices from the counter on.
WrittenBlock(counter, block) ==
    [header |-> (counter = 0), start_idx |-> counter, block |-> block]

(***************************************************************************)
(* Specification SpecWriter.                                               *)
(***************************************************************************)
MaxBlocks == 3

MaxRuns == 2

BlockRows == {1, 2}

FwIdle ==
    /\ fw_main = "off"
    /\ file_queue = <<>>
    /\ stop_event = FALSE
    /\ worker = [pc |-> "none", block |-> <<>>]
    /\ file_handle = 0
    /\ sample_counter = 0
    /\ fw_files = <<>>
    /\ fw_enq = <<>>
    /\ fw_mark = 0
    /\ fw_pending = 0
    /\ fw_dropped = 0

\* FileWriter.__init__
FwStart ==
    /\ fw_main = "new"
    /\ file_queue = <<>>
    /\ stop_event = FALSE
    /\ worker = [pc |-> "none", block |-> <<>>]
    /\ file_handle = 0
    /\ sample_counter = 0
    /\ fw_files = <<>>
    /\ fw_enq = <<>>
    /\ fw_mark = 0
    /\ fw_pending = 0
    /\ fw_dropped = 0

\* FileWriter.start: a new file, a new worker thread, the event cleared.
FileWriter_start ==
    /\ fw_main \in {"new", "stopped"}
    /\ Len(fw_files) < MaxRuns
    /\ fw_files' = Append(fw_files, <<>>)
    /\ file_handle' = Len(fw_files) + 1
    /\ worker' = [pc |-> "test", block |-> <<>>]
    /\ stop_event' = FALSE
    /\ fw_main' = "started"
    /\ UNCHANGED <<file_queue, sample_counter, fw_enq, fw_mark, fw_pending, fw_dropped>>
    /\ UNCHANGED <<negVars, trVars, frVars, rtVars, scVars, cfVars>>

\* FileWriter.step: a copy of the block is put on the queue.
FileWriter_step ==
    /\ fw_main \in {"started", "join"}
    /\ Len(fw_enq) < MaxBlocks
    /\ \E rows \in BlockRows :
         LET block == [id |-> Len(fw_enq) + 1, rows |-> rows]
         IN  /\ file_queue' = Append(file_queue, block)
             /\ fw_enq' = Append(fw_enq, block)
    /\ UNCHANGED <<fw_main, stop_event, worker, file_handle, sample_counter,
                   fw_files, fw_mark, fw_pending, fw_dropped>>
    /\ UNCHANGED <<negVars, trVars, frVars, rtVars, scVars, cfVars>>

\* FileWriter.stop up to the join: the event is set.
FileWriter_stop ==
    /\ fw_main = "started"
    /\ stop_event' = TRUE
    /\ fw_mark' = Len(fw_enq)
    /\ fw_pending' = Len(file_queue) + Len(worker.block)
    /\ fw_main' = "join"
    /\ UNCHANGED <<file_queue, worker, file_handle, sample_counter, fw_files,
                   fw_enq, fw_dropped>>
    /\ UNCHANGED <<negVars, trVars, frVars, rtVars, scVars, cfVars>>

\* FileWriter.stop from the return of join(): the file is closed.
FileWriter_stop_joined ==
    /\ fw_main = "join"
    /\ worker.pc = "done"
    /\ file_handle' = 0
    /\ fw_main' = "stopped"
    /\ UNCHANGED <<file_queue, stop_event, worker, sample_counter, fw_files,
                   fw_enq, fw_mark, fw_pending, fw_dropped>>
    /\ UNCHANGED <<negVars, trVars, frVars, rtVars, scVars, cfVars>>

\* _file_worker: the test of the loop and, inside it, of the queue.  With
\* an empty queue the worker sleeps 10 ms and tests again.
FileWorker_test ==
    /\ worker.pc = "test"
    /\ worker' = IF ~WorkerContinues(stop_event, file_queue)
                 THEN [worker EXCEPT !.pc = "done"]
                 ELSE IF file_queue # <<>>
                 THEN [worker EXCEPT !.pc = "get"]
                 ELSE worker
    /\ worker' # worker
    /\ UNCHANGED <<fw_main, file_queue, stop_event, file_handle,
                   sample_counter, fw_files, fw_enq, fw_mark, fw_pending, fw_dropped>>
    /\ UNCHANGED <<negVars, trVars, frVars, rtVars, scVars, cfVars>>

\* block = self._file_queue.get(timeout=1)
FileWorker_get ==
    /\ worker.pc = "get"
    /\ file_queue # <<>>
    /\ worker' = [pc |-> "write", block |-> <<Head(file_queue)>>]
    /\ file_queue' = Tail(file_queue)
    /\ UNCHANGED <<fw_main, stop_event, file_handle, sample_counter, fw_files,
                   fw_enq, fw_mark, fw_pending, fw_dropped>>
    /\ UNCHANGED <<negVars, trVars, frVars, rtVars, scVars, cfVars>>

\* if self._file_handle: the block is written with its indices; else it is
\* forgotten.
FileWorker_write ==
    /\ worker.pc = "write"
    /\ IF file_handle # 0
       THEN /\ fw_files' =
                 [fw_files EXCEPT ![file_handle] =
                     Append(@, WrittenBlock(sample_counter, worker.block[1]))]
            /\ sample_counter' = sample_counter + worker.block[1].rows
            /\ UNCHANGED fw_dropped
       ELSE /\ fw_dropped' = fw_dropped + 1
            /\ UNCHANGED <<fw_files, sample_counter>>
    /\ worker' = [pc |-> "test", block |-> <<>>]
    /\ UNCHANGED <<fw_main, file_queue, stop_event, file_handle, fw_enq,
                   fw_mark, fw_pending>>
    /\ UNCHANGED <<negVars, trVars, frVars, rtVars, scVars, cfVars>>

-----------------------------------------------------------------------------
(***************************************************************************)
(* The specifications.                                                     *)
(***************************************************************************)
NegInit == NegStart /\ TrIdle /\ FrIdle /\ RtIdle /\ SchedIdle /\ CfIdle /\ FwIdle

NegNext == IONode_setup \/ OutputContext_update

SpecNeg == NegInit /\ [][NegNext]_vars

TriggerInit == TrStart /\ NegIdle /\ FrIdle /\ RtIdle /\ SchedIdle /\ CfIdle /\ FwIdle

TriggerNext == Trigger_setup \/ Trigger_step \/ Trigger_stop

SpecTrigger == TriggerInit /\ [][TriggerNext]_vars

FramerInit == FrStart /\ NegIdle /\ TrIdle /\ RtIdle /\ SchedIdle /\ CfIdle /\ FwIdle

FramerNext == Framer_setup \/ Framer_step

SpecFramer == FramerInit /\ [][FramerNext]_vars

\* The setup of a Framer and of a Trigger, each on its own input contexts.
SetupInit == FrStart /\ TrStart /\ NegIdle /\ RtIdle /\ SchedIdle /\ CfIdle /\ FwIdle

SetupNext == Framer_setup \/ Trigger_setup

SpecSetup == SetupInit /\ [][SetupNext]_vars

RouterInit == RtStart /\ NegIdle /\ TrIdle /\ FrIdle /\ SchedIdle /\ CfIdle /\ FwIdle

RouterNext == Router_setup \/ Router_step

SpecRouter == RouterInit /\ [][RouterNext]_vars

SchedInit == SchedStart /\ NegIdle /\ TrIdle /\ FrIdle /\ RtIdle /\ CfIdle /\ FwIdle

SchedNext ==
    \/ FixedRateSource_start
    \/ FixedRateSource_stop
    \/ FixedRateSource_stop_joined
    \/ \E t \in 1..Len(sc_threads) : ThreadFunction_enter(t)
    \/ \E t \in 1..Len(sc_threads) : ThreadFunction_iterate(t)
    \/ \E t \in 1..Len(sc_threads) : ThreadFunction_wake(t)
    \/ \E t \in 1..Len(sc_threads) : ThreadFunction_cycled(t)
    \/ Tick

SpecSched == SchedInit /\ [][SchedNext]_vars

\* A step of loop thread t.
ThreadStep(t) ==
    /\ t \in 1..Len(sc_threads)
    /\ \/ ThreadFunction_enter(t)
       \/ ThreadFunction_iterate(t)
       \/ ThreadFunction_wake(t)
       \/ ThreadFunction_cycled(t)

\* The lifecycle with threads that are scheduled again and again, calls of
\* cycle() that return, a join that returns and a clock that advances.
SpecSchedFair ==
    /\ SpecSched
    /\ \A t \in 1..MaxCalls : WF_vars(ThreadStep(t))
    /\ WF_vars(FixedRateSource_stop_joined)
    /\ WF_vars(Tick)

ConfigInit ==
    CfStart /\ NegIdle /\ TrIdle /\ FrIdle /\ RtIdle /\ SchedIdle /\ FwIdle

WriterInit ==
    /\ FwStart
    /\ NegIdle /\ TrIdle /\ FrIdle /\ RtIdle /\ SchedIdle /\ CfIdle

WriterNext ==
    \/ FileWriter_start
    \/ FileWriter_step
    \/ FileWriter_stop
    \/ FileWriter_stop_joined
    \/ FileWorker_test
    \/ FileWorker_get
    \/ FileWorker_write

SpecWriter == WriterInit /\ [][WriterNext]_vars

ConfigNext == Node_init \/ Node_setup \/ Node_step

SpecConfig == ConfigInit /\ [][ConfigNext]_vars

TimedNext ==
    \/ FixedRateSource_start
    \/ \E t \in 1..Len(sc_threads) : ThreadFunction_enter(t)
    \/ \E t \in 1..Len(sc_threads) : ThreadFunction_iterate(t)
    \/ \E t \in 1..Len(sc_threads) : ThreadFunction_wake(t)
    \/ \E t \in 1..Len(sc_threads) : ThreadFunction_cycled(t)
    \/ TimedTick

SpecTimed == SchedInit /\ [][TimedNext]_vars

-----------------------------------------------------------------------------
(***************************************************************************)
(* Properties of the Trigger (SpecTrigger).                                *)
(*                                                                         *)
(* Steps and samples are counted from 1: sample t arrives on step t.  A    *)
(* hit on step h is the claims' hit at sample index k = h - 1 counted from *)
(* 0; "k >= samples_pre" reads h - 1 >= samples_pre.                       *)
(***************************************************************************)
\* What the rolling buffer of length n holds after step t, said without the
\* step: row i is sample t - n + i, or zero before the start of the stream
\* (the stream of a run starts with sample tr_base + 1).
WindowAt(t, n) ==
    [i \in 1..n |-> IF t - n + i >= tr_base + 1 THEN t - n + i ELSE 0]

\* The number of steps between a hit and the completion of its countdown.
Latency == IF samples_post >= 1 THEN samples_post - 1 ELSE 0

\* n is an integer nearest to time_ms / 1000 * rate.
IsNearest(n, time_ms, rate) ==
    /\ 2 * (1000 * n - time_ms * rate) <= 1000
    /\ 2 * (time_ms * rate - 1000 * n) <= 1000

\* C1 as stated: with a single hit on step k, nothing is returned before step
\* k + samples_post, one epoch is returned on step k + samples_post (that is,
\* after samples_post further steps), and every other step returns None.
C1_EpochAfterSamplesPostSteps ==
    tr_pc = "ready" =>
        /\ tr_hits = <<>> => (tr_epochs = <<>> /\ tr_out = <<>>)
        /\ Len(tr_hits) = 1 =>
             LET done == tr_hits[1] + samples_post
             IN  /\ tr_step < done => (tr_epochs = <<>> /\ tr_out = <<>>)
                 /\ tr_step >= done =>
                      (Len(tr_epochs) = 1 /\ tr_epochs[1].step = done)
                 /\ tr_out # <<>> <=> tr_step = done

\* C1 (amended): with a single hit on step k, samples_post being the integer
\* nearest to time_post * sampling_rate, one epoch is returned on step
\* k + samples_post - 1 (after samples_post - 1 further steps: the hit step
\* itself is the first of the samples_post countdown steps), on step k itself
\* when samples_post is 0; nothing is returned before, and every other step
\* returns None.
C1_EpochAfterCountdown ==
    tr_pc = "ready" =>
        /\ IsNearest(samples_post, tr_cfg.time_post_ms, tr_cfg.sampling_rate)
        /\ tr_hits = <<>> => (tr_epochs = <<>> /\ tr_out = <<>>)
        /\ Len(tr_hits) = 1 =>
             LET done == tr_hits[1] + (IF samples_post >= 1
                                       THEN samples_post - 1 ELSE 0)
             IN  /\ tr_step < done => (tr_epochs = <<>> /\ tr_out = <<>>)
                 /\ tr_step >= done =>
                      (Len(tr_epochs) = 1 /\ tr_epochs[1].step = done)
                 /\ tr_out # <<>> <=> tr_step = done

\* A single hit on step 3 whose epoch has just been returned, three steps
\* later (samples_post = 4).
C1_Witness ==
    /\ tr_pc = "ready"
    /\ samples_post = 4
    /\ tr_hits = <<3>>
    /\ tr_step = 6
    /\ tr_out # <<>>
    /\ Len(tr_epochs) = 1

\* C2 as stated: the epoch of a hit at sample index k >= samples_pre has
\* samples_pre + samples_post rows; the first samples_pre rows are the samples
\* k - samples_pre .. k - 1 and the last samples_post rows are the samples from
\* k onward, in arrival order.
C2_EpochContent ==
    tr_pc = "ready" =>
        \A j \in 1..Len(tr_epochs) :
            LET h == tr_hits[j]
                e == tr_epochs[j].epoch
            IN  h - 1 - tr_base >= samples_pre =>
                  /\ Len(e) = samples_pre + samples_post
                  /\ \A i \in 1..samples_pre : e[i] = h - samples_pre - 1 + i
                  /\ \A i \in 1..samples_post : e[samples_pre + i] = h - 1 + i

\* The same for the configurations with at least one post-trigger sample.
C2_EpochContentWithPostSamples ==
    (tr_pc = "ready" /\ samples_post >= 1) => C2_EpochContent

\* C3: every hit has exactly one epoch or one pending countdown; the j-th epoch
\* is that of the j-th hit, all epochs come with the same latency after their
\* own hit, each is the rolling buffer of its own completion step, and every
\* pending countdown has the value its own hit gives it, whatever was started,
\* completed or removed meanwhile.
C3_OverlappingHits ==
    tr_pc = "ready" =>
        /\ Len(tr_epochs) + Len(countdown) = Len(tr_hits)
        /\ \A j \in 1..Len(tr_epochs) :
             /\ tr_epochs[j].step >= tr_hits[j]
             /\ tr_epochs[j].step - tr_hits[j] = tr_epochs[1].step - tr_hits[1]
             /\ tr_epochs[j].epoch =
                    WindowAt(tr_epochs[j].step, samples_pre + samples_post)
             /\ j > 1 => tr_epochs[j].step > tr_epochs[j - 1].step
        /\ \A i \in 1..Len(countdown) :
             countdown[i] =
                 samples_post - (tr_step - tr_hits[Len(tr_epochs) + i] + 1)
        /\ (Len(tr_epochs) >= 1 /\ Len(countdown) >= 1) =>
             tr_step - tr_hits[Len(tr_epochs) + 1]
                 < tr_epochs[1].step - tr_hits[1]

\* Two hits, the second made while the first countdown was pending, and both
\* epochs returned.
C3_Witness ==
    /\ tr_pc = "ready"
    /\ Len(tr_hits) >= 2
    /\ Len(tr_epochs) >= 2
    /\ tr_hits[2] < tr_epochs[1].step
    /\ tr_epochs[1].epoch # tr_epochs[2].epoch

-----------------------------------------------------------------------------
(***************************************************************************)
(* Properties of the Framer (SpecFramer).                                  *)
(***************************************************************************)
\* C6: after N single-sample steps the Framer has returned exactly
\* floor(N / F) frames (none while N < F); a step returns a frame exactly when
\* it brings N to a multiple of F, and None otherwise.
C6_FrameCount ==
    fr_pc = "ready" =>
        LET N == Len(fr_inputs)
            F == fr_cfg.frame_size
        IN  /\ Len(fr_frames) = N \div F
            /\ fr_out = "buf" <=> (N >= 1 /\ N % F = 0)
            /\ N < F => fr_frames = <<>>

\* Seven samples into frames of three: two frames, the last step returned None.
C6_Witness ==
    /\ fr_pc = "ready"
    /\ fr_cfg.frame_size = 3
    /\ Len(fr_inputs) = 7
    /\ Len(fr_frames) = 2
    /\ fr_out = "None"

\* C7: the j-th frame returned holds the input samples (j-1)*F+1 .. j*F, row i
\* holding the i-th sample of the block: nothing dropped, duplicated or out of
\* order.
C7_FrameContent ==
    fr_pc = "ready" =>
        LET F == fr_cfg.frame_size
        IN  \A j \in 1..Len(fr_frames) :
                /\ Len(fr_frames[j]) = F
                /\ j * F <= Len(fr_inputs)
                /\ \A i \in 1..F : fr_frames[j][i] = fr_inputs[(j - 1) * F + i]

\* Two frames of three distinct samples each have been returned.
C7_Witness ==
    /\ fr_pc = "ready"
    /\ fr_cfg.frame_size = 3
    /\ Len(fr_frames) = 2
    /\ fr_frames[1] = <<1, 2, 3>>
    /\ fr_frames[2] = <<3, 1, 2>>
    /\ fr_out = "buf"

-----------------------------------------------------------------------------
(***************************************************************************)
(* Properties of the Router (SpecRouter).                                  *)
(***************************************************************************)
\* The channels an input port contributes, said from its selector alone.
SelectedCount(port) ==
    IF port.sel = ALL THEN port.channel_count ELSE Len(port.sel)

SelectedChannel(port, n) == IF port.sel = ALL THEN n - 1 ELSE port.sel[n]

RECURSIVE SelectedBefore(_, _)
SelectedBefore(inputs, k) ==
    IF k <= 1 THEN 0
    ELSE SelectedBefore(inputs, k - 1) + SelectedCount(inputs[k - 1])

\* Every selected channel exists on its port and every port delivered a frame.
SelectionInRange(cfg) ==
    \A k \in 1..Len(cfg.inputs) :
        \A n \in 1..SelectedCount(cfg.inputs[k]) :
            /\ SelectedChannel(cfg.inputs[k], n) >= 0
            /\ SelectedChannel(cfg.inputs[k], n) < cfg.inputs[k].channel_count

AllDelivered == \A p \in DOMAIN rt_data : rt_data[p] # <<>>

DefaultOutput(cfg) == cfg.outputs = <<[name |-> "out", sel |-> ALL]>>

ExampleSelectors(cfg) ==
    /\ Len(cfg.inputs) = 2
    /\ cfg.inputs[1].sel = <<0, 1>> /\ cfg.inputs[1].channel_count = 8
    /\ cfg.inputs[2].sel = <<3, 4, 5>> /\ cfg.inputs[2].channel_count = 8

\* C8: with the default ALL output, the columns of the output frame are the
\* selected channels of the first input port in selection order, then those of
\* the second port; [[0,1],[3,4,5]] over two 8-channel sources gives the five
\* columns A0, A1, B3, B4, B5 of the current input frames.
C8_RouterColumnOrder ==
    (/\ rt_pc = "ready"
     /\ rt_out.result # "none"
     /\ DefaultOutput(rt_cfg)
     /\ SelectionInRange(rt_cfg)
     /\ AllDelivered) =>
        /\ rt_out.result = "ok"
        /\ Len(rt_out.frames["out"]) =
               SelectedBefore(rt_cfg.inputs, Len(rt_cfg.inputs) + 1)
        /\ \A k \in 1..Len(rt_cfg.inputs) :
             \A n \in 1..SelectedCount(rt_cfg.inputs[k]) :
                 rt_out.frames["out"][SelectedBefore(rt_cfg.inputs, k) + n] =
                     rt_data[rt_cfg.inputs[k].name]
                            [SelectedChannel(rt_cfg.inputs[k], n) + 1]
        /\ ExampleSelectors(rt_cfg) =>
             rt_out.frames["out"] =
                 <<rt_data["in1"][1], rt_data["in1"][2],
                   rt_data["in2"][4], rt_data["in2"][5], rt_data["in2"][6]>>

\* The example of the specification has been stepped with both frames present.
C8_Witness ==
    /\ rt_pc = "ready"
    /\ DefaultOutput(rt_cfg)
    /\ ExampleSelectors(rt_cfg)
    /\ AllDelivered
    /\ rt_out.result = "ok"
    /\ Len(rt_out.frames["out"]) = 5
    /\ rt_out.frames["out"][3] # rt_out.frames["out"][1]

\* C9: after setup every output port's context reports a channel_count equal
\* to the length of that port's ChannelMap and to the number of columns of
\* every frame the port emits; a single input port with ALL for input and
\* output is passed on with all its channels in their original order.
C9_RouterChannelCount ==
    rt_pc = "ready" =>
        /\ DOMAIN rt_ctx_out = {rt_cfg.outputs[k].name : k \in 1..Len(rt_cfg.outputs)}
        /\ DOMAIN rt_map = DOMAIN rt_ctx_out
        /\ \A p \in DOMAIN rt_ctx_out :
             /\ rt_ctx_out[p].channel_count = <<Len(rt_map[p])>>
             /\ rt_out.result = "ok" =>
                  Len(rt_out.frames[p]) = rt_ctx_out[p].channel_count[1]
        /\ (/\ Len(rt_cfg.inputs) = 1
            /\ rt_cfg.inputs[1].sel = ALL
            /\ DefaultOutput(rt_cfg)) =>
             /\ rt_ctx_out["out"].channel_count = <<rt_cfg.inputs[1].channel_count>>
             /\ rt_map["out"] = [c \in 1..rt_cfg.inputs[1].channel_count |->
                                    [port |-> "in", ch |-> c - 1]]
             /\ (rt_out.result # "none" /\ AllDelivered) =>
                  (rt_out.result = "ok" /\ rt_out.frames["out"] = rt_data["in"])

\* Two output ports of different width over a wider input map, and a frame
\* emitted on each.
C9_Witness ==
    /\ rt_pc = "ready"
    /\ Len(rt_cfg.outputs) = 2
    /\ rt_out.result = "ok"
    /\ Len(rt_out.frames["out1"]) = 2
    /\ Len(rt_out.frames["out2"]) = 1
    /\ Len(rt_map["out1"]) = 2
    /\ rt_ctx_out["out1"].channel_count = <<2>>
    /\ rt_ctx_out["out2"].channel_count = <<1>>

-----------------------------------------------------------------------------
(***************************************************************************)
(* Properties of the negotiation (SpecNeg).                                *)
(***************************************************************************)
\* The channel counts setup was handed, with the implicit single channel.
GivenCounts ==
    {1} \cup {neg_in0[p]["channel_count"][1] :
                 p \in {q \in Range(neg_ports) : neg_in0[q]["channel_count"] # <<>>}}

\* The checks that come before the channel-count check have passed.
ReachedChannelCheck == neg_result \notin {"channel_count_missing",
                                          "frame_size_missing", "sampling_rate"}

\* C10: the channel-count negotiation of setup (the check reached once the
\* required keys and the sampling rates have passed) succeeds iff the input
\* channel counts together with the implicit 1 have at most two distinct
\* members, and raises the channel-count error otherwise; once it has
\* succeeded every input context's channel_count has been rewritten in place
\* to the maximum (nothing else of the context is touched), and the output
\* context of a successful setup reports that maximum.
C10_ChannelCountNegotiation ==
    neg_pc = "done" =>
        /\ ReachedChannelCheck =>
             (neg_result # "channel_count" <=> Cardinality(GivenCounts) <= 2)
        /\ neg_result = "channel_count" => ReachedChannelCheck
        /\ neg_result \in {"ok", "frame_size", "type"} =>
             /\ Cardinality(GivenCounts) <= 2
             /\ \A p \in Range(neg_ports) :
                  /\ neg_in[p]["channel_count"] = <<SetMax(GivenCounts)>>
                  /\ \A key \in ContextKeys \ {"channel_count"} :
                       neg_in[p][key] = neg_in0[p][key]
        /\ neg_result = "ok" =>
             neg_out["channel_count"] = <<SetMax(GivenCounts)>>

\* One channel against eight: setup succeeded and both ports report eight.
C10_Witness ==
    /\ neg_pc = "done"
    /\ neg_result = "ok"
    /\ Len(neg_ports) = 2
    /\ neg_in0["in1"]["channel_count"] = <<1>>
    /\ neg_in0["in2"]["channel_count"] = <<8>>
    /\ neg_in["in1"]["channel_count"] = <<8>>
    /\ neg_in["in2"]["channel_count"] = <<8>>
    /\ neg_out["channel_count"] = <<8>>

\* Three ports with the counts 1, 4 and 8: setup raised the channel-count error.
C10_WitnessIncompatible ==
    /\ neg_pc = "done"
    /\ neg_result = "channel_count"
    /\ Len(neg_ports) = 3
    /\ neg_in0["in1"]["channel_count"] = <<1>>
    /\ neg_in0["in2"]["channel_count"] = <<4>>
    /\ neg_in0["in3"]["channel_count"] = <<8>>

-----------------------------------------------------------------------------
(***************************************************************************)
(* Properties of the FixedRateSource lifecycle (SpecSched).                *)
(***************************************************************************)
\* The threads that are inside an iteration of the timing loop: they have
\* passed "while self._running" and are waiting for their sample time or
\* are inside cycle().
LoopsIterating ==
    {t \in 1..Len(sc_threads) : sc_threads[t].pc \in {"sleep", "cycle"}}

\* The threads that are inside cycle().
LoopsCycling == {t \in 1..Len(sc_threads) : sc_threads[t].pc = "cycle"}

\* C4: after any sequence of start() and stop() calls at most one timing
\* loop of the source is alive and calling cycle(): never two threads are
\* inside an iteration of the loop at the same time.
C4_SingleTimingLoop == Cardinality(LoopsIterating) <= 1

\* The stronger failure: two loop threads of one source inside cycle() at
\* the same time.
C4_NeverTwoInCycle == Cardinality(LoopsCycling) <= 1

\* The part of C4 that holds: start() while Running starts no thread.
C4_StartWhileRunningIsNoOp ==
    [][(running /\ sc_calls' = Append(sc_calls, "start"))
         => (sc_threads' = sc_threads /\ thread' = thread /\ running')]_vars

-----------------------------------------------------------------------------
(***************************************************************************)
(* Properties of the timing loop left running (SpecTimed).  Only one loop  *)
(* thread exists there, thread 1.                                          *)
(***************************************************************************)
\* The loop has begun: self._time_start is set.
LoopBegun == Len(sc_threads) >= 1 /\ time_start # <<>>

\* The number of calls of cycle() the loop has made so far: the iteration
\* counted by sample_count has made its call unless it is still asleep.
CyclesTriggered ==
    sc_threads[1].sample_count
      - (IF sc_threads[1].pc = "sleep" THEN 1 ELSE 0)

\* T, in ticks: the time for which the loop has been running.
Elapsed == sc_now - time_start[1]

\* floor(T * R)
FloorTR == (Elapsed * sc_cfg.unit_ms * sc_cfg.rate) \div 1000

-----------------------------------------------------------------------------
(***************************************************************************)
(* Further properties of the FixedRateSource lifecycle (SpecSched).        *)
(***************************************************************************)
\* Thread t enters its timing loop in this step.
EntersLoop(t) ==
    /\ t \in 1..Len(sc_threads)
    /\ sc_threads[t].pc = "enter"
    /\ sc_threads'[t].pc = "loop"

\* C12: the schedule state is reset on every start: a loop that begins,
\* after the first start as after a restart, begins with start_time at the
\* current time and sample_count 0, so that its first sample is due one
\* sample period later.
C12_ScheduleResetOnStart ==
    [][\A t \in 1..Len(sc_threads) :
         EntersLoop(t) =>
           /\ time_start' = <<sc_now>>
           /\ sc_threads'[t].sample_count = 0
           /\ ExpectedNextSampleTime(sc_cfg, time_start'[1], 1)
                = sc_now + SampleTime(sc_cfg, 1)]_vars

\* The moves of a loop thread that finish an iteration or leave the loop.
FinishingMoves ==
    { <<"enter", "loop">>, <<"sleep", "cycle">>, <<"cycle", "loop">>,
      <<"loop", "done">> }

\* Every loop thread has ended.
AllLoopsDone == \A t \in 1..Len(sc_threads) : sc_threads[t].pc = "done"

\* C13: once stop() has cleared the flag, and for as long as start() is not
\* called again, a loop thread begins no new iteration (its sample count
\* stays) and only finishes the iteration it is in, which triggers at most
\* the one cycle it was sleeping for, then leaves the loop; and unless
\* start() is called again every loop thread eventually ends.
C13_LoopExitsAfterStop ==
    /\ [][~running =>
            \A t \in 1..Len(sc_threads) :
               sc_threads'[t] # sc_threads[t] =>
                 /\ sc_threads'[t].sample_count = sc_threads[t].sample_count
                 /\ <<sc_threads[t].pc, sc_threads'[t].pc>>
                      \in FinishingMoves]_vars
    /\ [](~running => <>(running \/ AllLoopsDone))

\* stop() was called while the loop slept for its second sample; the loop
\* has made that cycle and ended.
C13_Witness ==
    /\ sc_calls = <<"start", "stop">>
    /\ ~running
    /\ sc_threads[1].pc = "done"
    /\ sc_threads[1].sample_count = 2
    /\ sc_threads[1].cycle_at > 0

-----------------------------------------------------------------------------
(***************************************************************************)
(* The lag policy of the timing loop (SpecTimed).                          *)
(***************************************************************************)
\* Thread t calls cycle() without a wait for a sample whose time has
\* already passed, at the very instant of its previous call of cycle().
BackToBack(t) ==
    /\ sc_threads[t].pc = "loop"
    /\ sc_threads'[t].pc = "cycle"
    /\ sc_threads[t].sample_count >= 1
    /\ sc_threads[t].cycle_at = sc_now
    /\ ExpectedNextSampleTime(sc_cfg, time_start[1],
                              sc_threads'[t].sample_count) < sc_now

\* C14: the loop accepts a lag and does not catch up: the sample slots
\* missed while a cycle overran are not made up by calls of cycle() that
\* follow one another without a wait.
C14_NoCatchUpBurst ==
    [][\A t \in 1..Len(sc_threads) : ~BackToBack(t)]_vars

-----------------------------------------------------------------------------
(***************************************************************************)
(* Further properties of the Trigger (SpecTrigger).                        *)
(***************************************************************************)
\* C15: an emitted epoch is an independent copy: whatever the Trigger does
\* on later steps, every epoch returned so far still holds the values it
\* had when it was returned, while the rolling buffer has moved on (it
\* changes on every step and differs from every earlier epoch).
C15_EpochIsCopy ==
    /\ tr_pc = "ready" =>
         \A j \in 1..Len(tr_epochs) :
            /\ tr_epochs[j].epoch =
                   WindowAt(tr_epochs[j].step, samples_pre + samples_post)
            /\ tr_epochs[j].step < tr_step =>
                   tr_epochs[j].epoch # buf_input
    /\ (tr_pc = "ready" /\ tr_step >= 1) =>
         buf_input = WindowAt(tr_step, samples_pre + samples_post)

\* An epoch was returned and the Trigger has made two more steps.
C15_Witness ==
    /\ tr_pc = "ready"
    /\ Len(tr_epochs) >= 1
    /\ tr_epochs[1].step + 2 <= tr_step
    /\ Len(tr_epochs[1].epoch) >= 2

-----------------------------------------------------------------------------
(***************************************************************************)
(* Further properties of the Router (SpecRouter).                          *)
(***************************************************************************)
\* The channel of a map entry is there in the input of the last step.
Available(entry) ==
    /\ entry.port \in DOMAIN rt_data
    /\ rt_data[entry.port] # <<>>
    /\ PyIndexOk(entry.ch, Len(rt_data[entry.port]))

\* Every output frame of the last step has one column per map entry: the
\* channel's column if it was available, else a single zero-valued column.
DegradedFrames ==
    /\ DOMAIN rt_out.frames = DOMAIN rt_map
    /\ \A p \in DOMAIN rt_map :
         /\ Len(rt_out.frames[p]) = Len(rt_map[p])
         /\ \A j \in 1..Len(rt_map[p]) :
              rt_out.frames[p][j] =
                 IF Available(rt_map[p][j])
                 THEN rt_data[rt_map[p][j].port]
                        [PyIndex(rt_map[p][j].ch,
                                 Len(rt_data[rt_map[p][j].port]))]
                 ELSE <<0>>

\* C16: whatever the input of a step, data of referenced ports missing or
\* not, and whatever the negotiated frame size, Router.step raises no error
\* and returns for every output port a frame in which each unavailable
\* channel is a single zero-valued column.
C16_RouterDegradation ==
    (rt_pc = "ready" /\ rt_out.result # "none") =>
        /\ rt_out.result = "ok"
        /\ DegradedFrames

\* What holds of C16: with frames of one row the step never raises.
C16_RouterDegradationSingleRow ==
    (/\ rt_pc = "ready"
     /\ rt_out.result # "none"
     /\ \A k \in 1..Len(rt_cfg.inputs) : rt_cfg.inputs[k].frame_size = 1) =>
        /\ rt_out.result = "ok"
        /\ DegradedFrames

\* The frames of the Router's last step have the rows and columns of the
\* negotiated output contexts.
RouterFramesAsNegotiated ==
    \A p \in DOMAIN rt_out.frames :
        /\ <<Len(rt_out.frames[p])>> = rt_ctx_out[p].channel_count
        /\ Len(rt_out.frames[p]) = Len(rt_map[p])
        /\ \A j \in 1..Len(rt_out.frames[p]) :
             <<Len(rt_out.frames[p][j])>> = rt_ctx_out[p].frame_size

\* C17: every frame a node emits on an output port has the frame_size and
\* the channel_count of the port's negotiated context: every Router output,
\* degraded steps included, every Framer frame (F rows) and every Trigger
\* epoch (samples_pre + samples_post rows).
C17_FixedFrameShape ==
    /\ (rt_pc = "ready" /\ rt_out.result = "ok") => RouterFramesAsNegotiated
    /\ fr_pc = "ready" =>
         \A j \in 1..Len(fr_frames) :
            <<Len(fr_frames[j])>> = fr_ctx_out["frame_size"]
    /\ tr_pc = "ready" =>
         \A j \in 1..Len(tr_epochs) :
            <<Len(tr_epochs[j].epoch)>> = tr_ctx_out["frame_size"]

-----------------------------------------------------------------------------
(***************************************************************************)
(* Further properties of the negotiation (SpecNeg).                        *)
(***************************************************************************)
\* The sampling rates the input ports declared.
GivenRates ==
    {neg_in0[p]["sampling_rate"][1] :
        p \in {q \in Range(neg_ports) : neg_in0[q]["sampling_rate"] # <<>>}}

\* The required keys were there, so the sampling-rate check was made.
ReachedRateCheck ==
    neg_result \notin {"channel_count_missing", "frame_size_missing"}

\* C18: ports without a sampling_rate are ignored: setup passes the
\* sampling-rate check whenever all ports that declare a rate declare the
\* same one, and raises the sampling-rate error exactly when two declaring
\* ports conflict.
C18_SamplingRateNegotiation ==
    (neg_pc = "done" /\ ReachedRateCheck) =>
        (neg_result = "sampling_rate" <=> Cardinality(GivenRates) >= 2)

\* What holds of C18: when at least one port declares a rate.
C18_SamplingRateNegotiationDeclared ==
    (neg_pc = "done" /\ ReachedRateCheck /\ GivenRates # {}) =>
        (neg_result = "sampling_rate" <=> Cardinality(GivenRates) >= 2)

-----------------------------------------------------------------------------
(***************************************************************************)
(* Properties of the constructors (SpecConfig).                            *)
(***************************************************************************)
\* The arguments are among those the constructors have to reject.
InvalidParams ==
    \/ /\ cf_node = "Framer"
       /\ cf_args.frame_size # None
       /\ cf_args.frame_size.type # "int" \/ cf_args.frame_size.milli < 1000
    \/ /\ cf_node = "Trigger"
       /\ \/ cf_args.time_pre # None /\ cf_args.time_pre.milli <= 0
          \/ cf_args.time_post # None /\ cf_args.time_post.milli <= 0
    \/ /\ cf_node = "FixedRateSource"
       /\ cf_args.sampling_rate.milli <= 0

\* C19: configuration errors are raised at construction: a Framer whose
\* frame_size is not an integer or is less than 1, a Trigger whose time_pre
\* or time_post is not positive and a fixed-rate source whose sampling_rate
\* is not positive never get past the constructor, so that no setup and no
\* step of such a node is ever made.
C19_RejectedAtConstruction ==
    (cf_pc # "off" /\ InvalidParams) => cf_pc \in {"args", "rejected"}

\* A Framer with frame_size 0 has been rejected.
C19_Witness ==
    /\ cf_pc = "rejected"
    /\ cf_node = "Framer"
    /\ cf_args.frame_size = IntOf(0)

-----------------------------------------------------------------------------
\* The numbers of the blocks written to any file so far.
WrittenIds ==
    UNION {{fw_files[f][k].block.id : k \in DOMAIN fw_files[f]} :
               f \in DOMAIN fw_files}

\* The numbers of the blocks in the queue or in the worker's hands.
UnwrittenIds ==
    {file_queue[k].id : k \in DOMAIN file_queue}
        \cup {worker.block[k].id : k \in DOMAIN worker.block}

\* stop() has the worker's end behind it: join() has returned, or stop()
\* itself has.
WorkerJoined ==
    \/ fw_main = "join" /\ worker.pc = "done"
    \/ fw_main = "stopped"

(***************************************************************************)
(* C20.  FileWriter shutdown: every block step() enqueued before stop()    *)
(* was called has been written to the file when the worker has ended and   *)
(* stop() is about to close the file, and still when stop() has returned;  *)
(* no such block is left in the queue or in the worker's hands, none was   *)
(* taken from the queue and not written, the file is open as long as the   *)
(* worker runs, and the worker thread has ended when stop() has returned.  *)
(***************************************************************************)
C20_ShutdownWritesAll ==
    /\ WorkerJoined =>
          /\ \A id \in 1..fw_mark : id \in WrittenIds
          /\ \A id \in UnwrittenIds : id > fw_mark
    /\ fw_main = "stopped" => worker.pc = "done" /\ file_handle = 0
    /\ worker.pc \in {"test", "get", "write"} => file_handle # 0
    /\ fw_dropped = 0

\* stop() has returned, and all three blocks were enqueued and at least two
\* of them still unwritten when it was called.
C20_Witness ==
    /\ fw_main = "stopped"
    /\ fw_mark = 3
    /\ fw_pending >= 2
    /\ {1, 2, 3} \subseteq WrittenIds

-----------------------------------------------------------------------------
(***************************************************************************)
(* Properties of the Trigger, continued (SpecTrigger).                     *)
(***************************************************************************)
\* The step just taken is a Trigger step that returned normally.
TriggerStepped == tr_pc' = "ready" /\ tr_step' = tr_step + 1

\* The step just taken started a countdown.
HitOnStep == tr_hits' = Append(tr_hits, tr_step')

StillPending(x) == x >= 1

\* The countdowns of the step just taken, the one it started included, after
\* each has been decremented once.
DecrementedAll ==
    LET all == IF HitOnStep THEN Append(countdown, samples_post)
               ELSE countdown
    IN  [i \in 1..Len(all) |-> all[i] - 1]

\* Between steps the pending countdowns are >= 1 and strictly increasing
\* from the oldest to the newest.
PendingOrdered ==
    \A i \in 1..Len(countdown) :
        /\ countdown[i] >= 1
        /\ i > 1 => countdown[i - 1] < countdown[i]

\* C21: between steps the pending countdowns are pairwise distinct, strictly
\* increasing from oldest to newest and all >= 1; on every step every
\* countdown is decremented exactly once, at most one reaches zero, the step
\* returns an epoch exactly when one does, and that countdown is removed
\* while all others stay pending.
C21_AtMostOneCountdownCompletes ==
    /\ [](tr_pc \in {"ready", "stopped"} => PendingOrdered)
    /\ [][TriggerStepped =>
            LET dec == DecrementedAll
                due == {i \in 1..Len(dec) : dec[i] <= 0}
            IN  /\ Cardinality(due) <= 1
                /\ countdown' = SelectSeq(dec, StillPending)
                /\ (tr_out' # <<>>) <=> (due # {})
                /\ Len(tr_epochs') = Len(tr_epochs) + Cardinality(due)]_vars

\* A step on which the oldest of three countdowns completed and two stay
\* pending.
C21_Witness ==
    /\ tr_pc = "ready"
    /\ tr_out # <<>>
    /\ Len(tr_epochs) >= 1
    /\ Len(countdown) = 2

\* C22: after every step the hits detected so far are the epochs emitted so
\* far plus the pending countdowns, never more than samples_post countdowns
\* are pending, and a hit has its one epoch as soon as the steps of its
\* countdown are made: as many epochs as hits that old, the j-th epoch
\* being that of the j-th hit.
C22_TriggerConservation ==
    tr_pc = "ready" =>
        /\ Len(tr_hits) = Len(tr_epochs) + Len(countdown)
        /\ Len(countdown) <= samples_post
        /\ \A j \in 1..Len(tr_hits) :
             tr_step >= tr_hits[j] + Latency =>
                 /\ j <= Len(tr_epochs)
                 /\ tr_epochs[j].step = tr_hits[j] + Latency
        /\ \A j \in 1..Len(tr_epochs) : tr_step >= tr_hits[j] + Latency

\* Three hits, two of them with their epoch and the third still counting.
C22_Witness ==
    /\ tr_pc = "ready"
    /\ Len(tr_hits) = 3
    /\ Len(tr_epochs) = 2
    /\ Len(countdown) = 1
    /\ tr_out = <<>>

\* The trigger value of the step just taken.
TriggerOfStep == tr_in'[1]

\* C23: the last observed value starts as a sentinel outside target and is,
\* after a step, the trigger value of that step; a step starts a countdown
\* (with the value samples_post, decremented once by the step itself) iff
\* its trigger value differs from the last observed value and is in target,
\* that is iff it is in target and is the first value of the run or differs
\* from the value of the step before.  So a held target value starts no
\* second countdown, target -> non-target -> target starts two, and a target
\* value on the first step starts one.
C23_EdgeDetection ==
    /\ [](tr_pc \in {"ready", "stopped"} =>
            /\ Sentinel(tr_cfg.target) \notin Range(tr_cfg.target)
            /\ last_trigger = IF tr_in = <<>> THEN Sentinel(tr_cfg.target)
                              ELSE tr_in[1])
    /\ [][TriggerStepped =>
            /\ HitOnStep \/ tr_hits' = tr_hits
            /\ HitOnStep <=> (/\ TriggerOfStep # last_trigger
                              /\ TriggerOfStep \in Range(tr_cfg.target))
            /\ HitOnStep <=> (/\ TriggerOfStep \in Range(tr_cfg.target)
                              /\ tr_in = <<>> \/ tr_in[1] # TriggerOfStep)
            /\ (HitOnStep /\ samples_post >= 2) =>
                   (/\ countdown' # <<>>
                    /\ countdown'[Len(countdown')] = samples_post - 1)]_vars

\* Target value 1 on the first step, a non-target value on the second, 1
\* again on the third: two countdowns started, on steps 1 and 3.
C23_Witness ==
    /\ tr_pc = "ready"
    /\ tr_cfg.target = <<1>>
    /\ tr_base = 0
    /\ tr_step = 3
    /\ tr_hits = <<1, 3>>
    /\ tr_in = <<1>>

\* The length of the rolling buffer.
BufferRows == samples_pre + samples_post

\* C24: with L = samples_pre + samples_post, after the t-th step of a run
\* row r (counted from 0) of the rolling buffer holds the run's input sample
\* t - (L - 1 - r) when that index is >= 1 and zero otherwise, and the buffer
\* has L rows at all times.
C24_RollingBuffer ==
    tr_pc \in {"ready", "stopped"} =>
        /\ Len(buf_input) = BufferRows
        /\ \A r \in 0..BufferRows - 1 :
             LET t == tr_step - tr_base
                 n == t - (BufferRows - 1 - r)
             IN  buf_input[r + 1] = IF n >= 1 THEN tr_base + n ELSE 0

\* A buffer of three rows after five steps: the first two samples have left
\* it.
C24_Witness ==
    /\ tr_pc = "ready"
    /\ tr_base = 0
    /\ BufferRows = 3
    /\ tr_step = 5
    /\ buf_input = <<3, 4, 5>>

\* The samples of the current run and the zero of the padding.
RunSamples == {0} \cup (tr_base + 1..tr_step)

\* C25: the countdowns pending at a stop are left without an epoch; after the
\* new setup the countdown list is empty, the rolling buffer all zeros and the last
\* observed trigger the sentinel; every epoch of the new run completes a
\* countdown started by a hit of the new run and holds samples of the new
\* run only, and the hits whose countdowns were pending at the stop are all
\* of the run before.
C25_DiscardedOnStop ==
    /\ tr_pc = "stopped" =>
        /\ Len(tr_left) = Len(countdown)
        /\ Len(tr_epochs) + Len(tr_left) = Len(tr_hits)
    /\ tr_pc = "ready" =>
        /\ tr_step = tr_base =>
             /\ countdown = <<>>
             /\ buf_input = Zeros(BufferRows)
             /\ last_trigger = Sentinel(tr_cfg.target)
             /\ tr_epochs = <<>> /\ tr_out = <<>>
        /\ Len(tr_epochs) + Len(countdown) = Len(tr_hits)
        /\ \A j \in 1..Len(tr_hits) : tr_hits[j] > tr_base
        /\ \A j \in 1..Len(tr_epochs) :
             /\ tr_epochs[j].step = tr_hits[j] + Latency
             /\ Range(tr_epochs[j].epoch) \subseteq RunSamples
        /\ \A i \in 1..Len(tr_left) : tr_left[i] <= tr_base

\* A run stopped with a countdown pending, and the first epoch of the run
\* after it.
C25_Witness ==
    /\ tr_pc = "ready"
    /\ tr_base > 0
    /\ tr_left # <<>>
    /\ Len(tr_epochs) = 1
    /\ tr_out # <<>>

-----------------------------------------------------------------------------
(***************************************************************************)
(* The iteration of the timing loop (SpecSched).                           *)
(***************************************************************************)
\* t_n = time_start + n / rate in ticks, said without the loop.
TargetTime(n) == time_start[1] + (1000 * n) \div (sc_cfg.rate * sc_cfg.unit_ms)

\* The wait for t_n at the current time, in milliseconds.
WaitMs(n) == (TargetTime(n) - sc_now) * sc_cfg.unit_ms

\* Thread t makes a move in this step.
Moves(t) == t \in 1..Len(sc_threads) /\ sc_threads'[t] # sc_threads[t]

\* C26: the n-th iteration of a loop (n = 1, 2, 3, ...) has the target time
\* t_n = time_start + n / rate, with time_start fixed while the loop runs;
\* it sleeps, until t_n, iff t_n - now > 1 ms, and goes on to cycle() at
\* once otherwise; every iteration calls cycle() exactly once before the
\* next one begins, so the calls of cycle() are as many as the iterations
\* (less the one still asleep).
C26_SchedulerIteration ==
    /\ [](\A t \in 1..Len(sc_threads) :
            /\ sc_threads[t].cycles =
                 sc_threads[t].sample_count
                   - (IF sc_threads[t].pc = "sleep" THEN 1 ELSE 0)
            /\ sc_threads[t].pc = "sleep" =>
                 sc_threads[t].wake = TargetTime(sc_threads[t].sample_count))
    /\ [][\A t \in 1..Len(sc_threads) :
            Moves(t) =>
              /\ sc_threads[t].pc # "enter" => time_start' = time_start
              /\ sc_threads'[t].sample_count # sc_threads[t].sample_count =>
                   /\ sc_threads[t].pc \in {"enter", "loop"}
                   /\ sc_threads[t].pc = "enter" =>
                        sc_threads'[t].sample_count = 0
              /\ (sc_threads[t].pc = "loop" /\ sc_threads'[t].pc # "done") =>
                   LET n == sc_threads[t].sample_count + 1
                   IN  /\ sc_threads'[t].sample_count = n
                       /\ sc_threads'[t].pc =
                            IF WaitMs(n) > 1 THEN "sleep" ELSE "cycle"
              /\ sc_threads[t].pc = "sleep" =>
                   /\ sc_threads'[t].pc = "cycle"
                   /\ sc_now >= TargetTime(sc_threads[t].sample_count)
              /\ sc_threads[t].pc = "cycle" => sc_threads'[t].pc = "loop"]_vars

\* At 500 Hz the loop began its first iteration 1 ms before the target time
\* and went on to cycle() without a sleep.
C26_Witness ==
    /\ sc_cfg = [unit_ms |-> 1, rate |-> 500]
    /\ time_start = <<0>>
    /\ sc_threads[1].pc = "cycle"
    /\ sc_threads[1].sample_count = 1
    /\ sc_threads[1].cycle_at = 1

\* stop() was the last call made on the source and it has returned.
StopReturned ==
    /\ sc_calls # <<>>
    /\ sc_calls[Len(sc_calls)] = "stop"
    /\ sc_main.pc = "idle"

\* Some loop thread calls cycle() in this step.
CycleTriggered ==
    \E t \in 1..Len(sc_threads) :
        sc_threads'[t].cycles = sc_threads[t].cycles + 1

\* C27: once stop() has returned, and until start() is called again, no
\* loop thread of the source calls cycle().
C27_NoCycleAfterStop ==
    [][StopReturned => ~CycleTriggered]_vars

\* The part of C27 that holds: once stop() has returned no loop thread
\* begins a new iteration, and a call of cycle() made then is that of the
\* iteration which was asleep when stop() gave up waiting.
C27_OnlyTheSleepingIteration ==
    [][StopReturned =>
         \A t \in 1..Len(sc_threads) :
            /\ sc_threads'[t].sample_count = sc_threads[t].sample_count
            /\ sc_threads'[t].cycles # sc_threads[t].cycles =>
                 sc_threads[t].pc = "sleep"]_vars

\* The calls of cycle() made so far by the first k loop threads.
RECURSIVE CyclesOfThreads(_)
CyclesOfThreads(k) ==
    IF k = 0 THEN 0 ELSE CyclesOfThreads(k - 1) + sc_threads[k].cycles

\* The number of targets t_n = time_start + n / rate, n >= 1, that are at
\* most 1 ms ahead of the current time.
TargetsDue ==
    IF time_start = <<>> THEN 0
    ELSE (((sc_now - time_start[1]) * sc_cfg.unit_ms + 1) * sc_cfg.rate)
            \div 1000

\* Every call of cycle() made in this step is made at most 1 ms before the
\* target time of its iteration.
CyclesNotEarly ==
    \A t \in 1..Len(sc_threads) :
        sc_threads'[t].cycles # sc_threads[t].cycles =>
            WaitMs(sc_threads'[t].sample_count) <= 1

\* C28: no loop runs ahead of its schedule: cycle n of a loop is never
\* triggered more than 1 ms before its target time t_n = time_start + n /
\* rate, so the number of cycles the loop has triggered by time t never
\* exceeds the number of targets t_n with t_n <= t + 1 ms.
C28_NeverAheadOfSchedule ==
    /\ [][CyclesNotEarly]_vars
    /\ [](\A t \in 1..Len(sc_threads) : sc_threads[t].cycles <= TargetsDue)

\* At 250 Hz the first cycle was triggered 1 ms before its target time of
\* 4 ms: one cycle made and one target due.
C28_Witness ==
    /\ sc_cfg = [unit_ms |-> 1, rate |-> 250]
    /\ time_start = <<0>>
    /\ sc_now = 3
    /\ sc_threads[1].cycles = 1
    /\ sc_threads[1].cycle_at = 3
    /\ TargetsDue = 1

\* The same count taken over all loops the source has ever run does not
\* hold: a loop started after a stop() counts again from 1 against the old
\* time_start and repeats the cycles of targets already served.
C28_SourceTotalWithinTargets ==
    CyclesOfThreads(Len(sc_threads)) <= TargetsDue

-----------------------------------------------------------------------------
(***************************************************************************)
(* Properties of the Router, continued (SpecRouter).                       *)
(***************************************************************************)
\* The length of the flat input map, said from the input selectors alone.
FlatLen(cfg) == SelectedBefore(cfg.inputs, Len(cfg.inputs) + 1)

\* The (port, channel) entry at position q (counted from 0) of the flat
\* input map: the selected channels of the first port, then those of the
\* second.
FlatEntry(cfg, q) ==
    LET k == CHOOSE i \in 1..Len(cfg.inputs) :
                 /\ SelectedBefore(cfg.inputs, i) <= q
                 /\ q < SelectedBefore(cfg.inputs, i + 1)
    IN  [port |-> cfg.inputs[k].name,
         ch |-> SelectedChannel(cfg.inputs[k],
                                q - SelectedBefore(cfg.inputs, k) + 1)]

\* The positions an output selector names: ALL is every position in order.
SelectedPositions(cfg, sel) ==
    IF sel = ALL THEN [j \in 1..FlatLen(cfg) |-> j - 1] ELSE sel

\* C29: for every output port p with selector s, the j-th entry of the
\* port's ChannelMap is the (port, channel) entry at position s[j] of the
\* flat input map, whatever the channel numbers are, and output column j of
\* every frame carries that channel of that port; ALL stands for all
\* positions in order; the same entry may serve several ports, be repeated
\* within one port, or come in another order.
C29_OutputSelectorsIndexInputMap ==
    rt_pc = "ready" =>
        \A k \in 1..Len(rt_cfg.outputs) :
            LET p   == rt_cfg.outputs[k].name
                pos == SelectedPositions(rt_cfg, rt_cfg.outputs[k].sel)
            IN  /\ Len(rt_map[p]) = Len(pos)
                /\ \A j \in 1..Len(pos) :
                     /\ pos[j] >= 0 /\ pos[j] < FlatLen(rt_cfg)
                     /\ rt_map[p][j] = FlatEntry(rt_cfg, pos[j])
                     /\ (/\ rt_out.result = "ok"
                         /\ SelectionInRange(rt_cfg)
                         /\ AllDelivered) =>
                          rt_out.frames[p][j] =
                              rt_data[FlatEntry(rt_cfg, pos[j]).port]
                                     [FlatEntry(rt_cfg, pos[j]).ch + 1]

\* Input selector [3, 4, 5] on one 8-channel port; out1 = [1, 0] carries
\* channels 4 and 3, out2 = [0, 0] carries channel 3 twice.
C29_Witness ==
    /\ rt_pc = "ready"
    /\ Len(rt_cfg.inputs) = 1
    /\ rt_cfg.inputs[1].sel = <<3, 4, 5>>
    /\ rt_cfg.inputs[1].channel_count = 8
    /\ rt_cfg.outputs = <<[name |-> "out1", sel |-> <<1, 0>>],
                          [name |-> "out2", sel |-> <<0, 0>>]>>
    /\ rt_out.result = "ok"
    /\ AllDelivered
    /\ rt_out.frames["out1"] = <<rt_data["in"][5], rt_data["in"][4]>>
    /\ rt_out.frames["out2"] = <<rt_data["in"][4], rt_data["in"][4]>>

\* The output ports whose selector names a position outside the input map.
BadOutputs(cfg) ==
    {k \in 1..Len(cfg.outputs) :
        \E j \in 1..Len(SelectedPositions(cfg, cfg.outputs[k].sel)) :
            ~PyIndexOk(SelectedPositions(cfg, cfg.outputs[k].sel)[j],
                       FlatLen(cfg))}

\* The input ports agree on sampling rate and frame size.
InputsAgree(cfg) ==
    /\ Cardinality({cfg.inputs[k].sampling_rate : k \in 1..Len(cfg.inputs)}) = 1
    /\ Cardinality({cfg.inputs[k].frame_size : k \in 1..Len(cfg.inputs)}) = 1

\* Setup fails on an output selector outside the input map and produces no
\* ChannelMap for such a port; an input selector beyond the channel count
\* has no part in the outcome of setup.
SetupChecksOutputsOnly ==
    rt_pc # "new" =>
        /\ (rt_pc = "index") <=> (BadOutputs(rt_cfg) # {})
        /\ \A k \in BadOutputs(rt_cfg) :
             rt_cfg.outputs[k].name \notin DOMAIN rt_map
        /\ (rt_pc = "ready") <=>
             (BadOutputs(rt_cfg) = {} /\ InputsAgree(rt_cfg))

\* C30: an output-selector index that is not a position of the input map
\* makes setup fail, with no ChannelMap for that port; an input-selector
\* index beyond the port's channel count is accepted by setup and shows at
\* step time only, where its column is replaced by a zero column.
C30_AsymmetricIndexChecking ==
    /\ SetupChecksOutputsOnly
    /\ (rt_pc = "ready" /\ rt_out.result # "none" /\ AllDelivered) =>
          /\ rt_out.result = "ok"
          /\ DegradedFrames

\* What holds of C30: the asymmetry of setup, and the zero column with
\* frames of one row.
C30_AsymmetricIndexCheckingSingleRow ==
    /\ SetupChecksOutputsOnly
    /\ (/\ rt_pc = "ready" /\ rt_out.result # "none" /\ AllDelivered
        /\ \A k \in 1..Len(rt_cfg.inputs) : rt_cfg.inputs[k].frame_size = 1) =>
          /\ rt_out.result = "ok"
          /\ DegradedFrames

-----------------------------------------------------------------------------
\* The entries of the input map that name port number k.
EntriesOfPort(cfg, k) ==
    {q \in 0..(FlatLen(cfg) - 1) : FlatEntry(cfg, q).port = cfg.inputs[k].name}

\* C31: Router.setup leaves its input port contexts as they were, checks no
\* channel counts and broadcasts none: whether setup succeeds does not
\* depend on the channel counts, ALL on an input port selects as many
\* channels as that port has, and after a successful setup every output
\* port has a context object of its own whose channel_count is the length
\* of that port's mapping.
C31_RouterLeavesInputContexts ==
    rt_pc # "new" =>
        /\ rt_ctx_in = RouterInContexts(rt_cfg)
        /\ rt_pc \in {"ready", "index", "sampling_rate", "frame_size", "type"}
        /\ (rt_pc = "ready") <=>
             (BadOutputs(rt_cfg) = {} /\ InputsAgree(rt_cfg))
        /\ \A k \in 1..Len(rt_cfg.inputs) :
             rt_cfg.inputs[k].sel = ALL =>
                Cardinality(EntriesOfPort(rt_cfg, k))
                    = rt_cfg.inputs[k].channel_count
        /\ rt_pc = "ready" =>
             /\ DOMAIN rt_ctx_obj = DOMAIN rt_ctx_out
             /\ \A p, q \in DOMAIN rt_ctx_obj :
                  p # q => rt_ctx_obj[p] # rt_ctx_obj[q]
             /\ \A p \in DOMAIN rt_ctx_out :
                  rt_ctx_out[p].channel_count = <<Len(rt_map[p])>>

\* Two input ports with 8 and 3 channels, both taken whole, are accepted;
\* the two output ports report different channel counts.
C31_Witness ==
    /\ rt_pc = "ready"
    /\ Len(rt_cfg.inputs) = 2
    /\ rt_cfg.inputs[1].channel_count = 8
    /\ rt_cfg.inputs[2].channel_count = 3
    /\ rt_cfg.inputs[1].sel = ALL
    /\ rt_cfg.inputs[2].sel = ALL
    /\ rt_ctx_in["in1"].channel_count = <<8>>
    /\ rt_ctx_in["in2"].channel_count = <<3>>
    /\ Len(rt_cfg.outputs) = 2
    /\ rt_ctx_out["out1"].channel_count = <<11>>
    /\ rt_ctx_out["out2"].channel_count = <<1>>
    /\ rt_ctx_obj["out1"] # rt_ctx_obj["out2"]

-----------------------------------------------------------------------------
\* The column a map entry stands for in the frames of one step: the
\* channel's column of the port's frame, a single zero where there is none.
ProjectedColumn(entry, data) ==
    IF /\ entry.port \in DOMAIN data
       /\ data[entry.port] # <<>>
       /\ PyIndexOk(entry.ch, Len(data[entry.port]))
    THEN data[entry.port][PyIndex(entry.ch, Len(data[entry.port]))]
    ELSE <<0>>

\* The projection of the frames of one step through a ChannelMap: for every
\* output port the columns of its entries side by side, an error where the
\* columns of one port cannot be put side by side.
Projection(map, data) ==
    IF \E p \in DOMAIN map :
          \/ map[p] = <<>>
          \/ \E i, j \in 1..Len(map[p]) :
                Len(ProjectedColumn(map[p][i], data))
                    # Len(ProjectedColumn(map[p][j], data))
    THEN [result |-> "error", frames |-> <<>>]
    ELSE [result |-> "ok",
          frames |-> [p \in DOMAIN map |->
                        [j \in 1..Len(map[p]) |->
                            ProjectedColumn(map[p][j], data)]]]

\* Router.step assigns to no field of the node.
RouterStepKeepsFields ==
    rt_pc = "ready" =>
        /\ rt_pc' = rt_pc
        /\ rt_cfg' = rt_cfg
        /\ rt_map' = rt_map
        /\ rt_ctx_out' = rt_ctx_out
        /\ rt_ctx_in' = rt_ctx_in
        /\ rt_ctx_obj' = rt_ctx_obj

\* C32: a step of the router changes neither the ChannelMap nor any other
\* field of the node, and what it returns is the projection of that step's
\* input frames through the ChannelMap, at the first step as at a later
\* one: equal inputs give equal outputs whatever the steps before were.
C32_RouterStepStateless ==
    /\ [](rt_steps >= 1 => rt_out = Projection(rt_map, rt_data))
    /\ [][RouterStepKeepsFields]_vars

\* A second step in which one port delivers nothing, after a first step
\* that returned frames.
C32_Witness ==
    /\ rt_pc = "ready"
    /\ rt_steps = 2
    /\ Len(rt_cfg.inputs) = 2
    /\ rt_data["in1"] # <<>>
    /\ rt_data["in2"] = <<>>
    /\ rt_out.result = "ok"
    /\ \E j \in 1..Len(rt_map["out"]) : rt_map["out"][j].port = "in2"
    /\ rt_out = Projection(rt_map, rt_data)

-----------------------------------------------------------------------------
\* What the holder of the frame emitted last reads now.
LastHeld == fr_held[Len(fr_held)].value

\* A step of the Framer once a frame has been emitted: in the frame emitted
\* last, as its holder reads it, row c mod F (c the counter of the step)
\* becomes the sample of the step and every other row stays as it was.
OverwritesOneRow ==
    (fr_pc = "ready" /\ fr_held # <<>> /\ fr_counter' = fr_counter + 1) =>
        LET F   == fr_cfg.frame_size
            old == LastHeld
            new == fr_held'[Len(fr_held)].value
        IN  /\ Len(new) = F
            /\ new[(fr_counter % F) + 1] = fr_inputs'[Len(fr_inputs')]
            /\ \A i \in 1..F : i # (fr_counter % F) + 1 => new[i] = old[i]

\* C33: the frame the Framer emits is its buffer itself: whoever holds an
\* emitted frame reads the buffer's present rows; right after the emitting
\* step these are the rows emitted, and every later step overwrites row
\* c mod F of the emitted frame in place, leaving the other rows unchanged.
C33_FramerZeroCopy ==
    /\ [](fr_pc = "ready" =>
            /\ Len(fr_held) = Len(fr_frames)
            /\ \A j \in 1..Len(fr_held) : fr_held[j].value = framer_buf
            /\ fr_out = "buf" => LastHeld = fr_frames[Len(fr_frames)])
    /\ [][OverwritesOneRow]_vars

\* F = 3: the frame <<1, 2, 3>> was emitted at the third step; after the
\* fifth step its holder reads <<3, 1, 3>>.
C33_Witness ==
    /\ fr_pc = "ready"
    /\ fr_cfg.frame_size = 3
    /\ fr_inputs = <<1, 2, 3, 3, 1>>
    /\ fr_frames = <<<<1, 2, 3>>>>
    /\ fr_held[1].value = <<3, 1, 3>>
    /\ fr_out = "None"

-----------------------------------------------------------------------------
\* C34: setup of a Framer and of a Trigger fails whenever the frame_size of
\* the main input port is not 1; after a successful setup the Framer's
\* output context has frame_size F, the Trigger's has frame_size
\* samples_pre + samples_post, and both have the channel_count of the input.
C34_SingleSamplePrecondition ==
    /\ fr_pc \in {"ready", "error"} =>
         /\ fr_cfg.frame_size_in # 1 => fr_pc = "error"
         /\ fr_pc = "ready" =>
              /\ fr_ctx_out["frame_size"] = <<fr_cfg.frame_size>>
              /\ fr_ctx_out["channel_count"] = <<fr_cfg.channel_count>>
    /\ tr_pc \in {"ready", "error"} =>
         /\ tr_cfg.frame_size_in # 1 => tr_pc = "error"
         /\ tr_pc = "ready" =>
              /\ tr_ctx_out["frame_size"] = <<samples_pre + samples_post>>
              /\ samples_pre = SamplesOf(tr_cfg.time_pre_ms, tr_cfg.sampling_rate)
              /\ samples_post = SamplesOf(tr_cfg.time_post_ms, tr_cfg.sampling_rate)
              /\ tr_ctx_out["channel_count"] = <<tr_cfg.channel_count>>

\* A Framer with F = 3 and a Trigger with windows of 2 and 1 samples, both
\* set up on single-sample input of 8 channels.
C34_Witness ==
    /\ fr_pc = "ready" /\ tr_pc = "ready"
    /\ fr_cfg.frame_size = 3 /\ fr_cfg.frame_size_in = 1
    /\ fr_ctx_out["frame_size"] = <<3>>
    /\ fr_ctx_out["channel_count"] = <<8>>
    /\ tr_cfg.frame_size_in = 1
    /\ samples_pre = 2 /\ samples_post = 1
    /\ tr_ctx_out["frame_size"] = <<3>>
    /\ tr_ctx_out["channel_count"] = <<8>>

\* Setup was refused for input frames of two samples.
C34_WitnessRefused ==
    /\ fr_pc = "error" /\ fr_cfg.frame_size_in = 2
    /\ tr_pc = "error" /\ tr_cfg.frame_size_in = 2

-----------------------------------------------------------------------------
(***************************************************************************)
(* The agreement checks, the merge and the order of the checks (SpecNeg).  *)
(***************************************************************************)
\* Some input port lacks a required key.
RequiredKeyMissing ==
    \E p \in Range(neg_ports) :
        ~Has(neg_in0[p], "channel_count") \/ ~Has(neg_in0[p], "frame_size")

\* Two input ports declare different values of the key.
Conflict(key) ==
    \E p, q \in Range(neg_ports) :
        /\ Has(neg_in0[p], key) /\ Has(neg_in0[q], key)
        /\ neg_in0[p][key] # neg_in0[q][key]

\* Two input ports declare different concrete types.
TypeConflict ==
    \E p, q \in Range(neg_ports) :
        /\ Has(neg_in0[p], "type") /\ Has(neg_in0[q], "type")
        /\ neg_in0[p]["type"] # <<"Any">> /\ neg_in0[q]["type"] # <<"Any">>
        /\ neg_in0[p]["type"] # neg_in0[q]["type"]

\* The checks before the frame-size check have passed.
ReachedFrameSizeCheck == neg_result \in {"frame_size", "type", "ok"}

\* The checks before the type check have passed.
ReachedTypeCheck == neg_result \in {"type", "ok"}

C35_WitnessWildcard ==
    /\ neg_pc = "done"
    /\ neg_result = "ok"
    /\ neg_in0["in1"]["type"] = <<"Any">>
    /\ Len(neg_ports) >= 2
    /\ neg_in0["in2"]["type"] = <<"str">>

\* Frame sizes 1 and 2 with everything else in agreement.
C35_WitnessFrameSize ==
    /\ neg_pc = "done"
    /\ neg_result = "frame_size"
    /\ Len(neg_ports) = 2
    /\ neg_in0["in1"]["frame_size"] = <<2>>
    /\ neg_in0["in2"]["frame_size"] = <<1>>
    /\ ~TypeConflict

\* The agreement checks read without the order of the checks: violated by
\* ports that differ in sampling rate as well, which fail on the rate.
C35_AgreementChecksAnyOrder ==
    neg_pc = "done" =>
        /\ (neg_result = "frame_size") <=> Conflict("frame_size")
        /\ (neg_result = "type") <=> TypeConflict

\* The input ports whose context, as setup leaves it, holds the key.
Declaring(key) == {p \in Range(neg_ports) : Has(neg_in[p], key)}

\* C36: after a successful setup the merged output context holds, for every
\* key some input context holds, the single value when one port declares
\* the key, the common value when all declaring ports hold the same value,
\* and otherwise the mapping from each declaring port to its value; it
\* holds no key that no input context holds.  (The channel counts merged
\* are those setup has rewritten.)
C36_MergeRule ==
    (neg_pc = "done" /\ neg_result = "ok") =>
        \A key \in ContextKeys :
            LET decl == Declaring(key)
                vals == {neg_in[p][key] : p \in decl}
            IN  /\ decl = {} <=> neg_out[key] = <<>>
                /\ Cardinality(vals) = 1 => neg_out[key] \in vals
                /\ Cardinality(vals) > 1 =>
                     /\ Len(neg_out[key]) = 2
                     /\ neg_out[key][1] = "per_port"
                     /\ DOMAIN neg_out[key][2] = decl
                     /\ \A p \in decl : <<neg_out[key][2][p]>> = neg_in[p][key]

\* Three ports: the rate is declared by in1 alone, the types are the
\* wildcard and str, the channel counts 1, 4, 4 were rewritten to 4.
C36_Witness ==
    /\ neg_pc = "done" /\ neg_result = "ok"
    /\ Len(neg_ports) = 3
    /\ Declaring("sampling_rate") = {"in1"}
    /\ neg_out["sampling_rate"] = neg_in0["in1"]["sampling_rate"]
    /\ neg_out["type"] = <<"per_port", [p \in {"in1", "in2"} |->
                              IF p = "in1" THEN "Any" ELSE "str"]>>
    /\ neg_in0["in1"]["channel_count"] = <<1>>
    /\ neg_out["channel_count"] = <<4>>
    /\ neg_out["frame_size"] = <<1>>

\* C37: after a successful setup every output port's context is one and
\* the same object, the merged context, so the contexts of all output ports
\* are equal; a change made in place through one output port shows in the
\* context of every other output port.
C37_SharedOutputContext ==
    /\ (neg_pc = "done" /\ neg_result = "ok") =>
          /\ DOMAIN neg_pout = Range(NegOutPortNames)
          /\ \A p, q \in DOMAIN neg_pout :
                neg_obj[p] = neg_obj[q] /\ neg_pout[p] = neg_pout[q]
          /\ \A p \in DOMAIN neg_pout : neg_pout[p] = neg_out
    /\ neg_pc = "updated" =>
          \A p \in DOMAIN neg_pout :
             /\ neg_pout[p] = neg_pout[neg_via[1]]
             /\ neg_pout[p]["frame_size"] # neg_out["frame_size"]
             /\ \A key \in ContextKeys \ {"frame_size"} :
                   neg_pout[p][key] = neg_out[key]

\* The frame size was set to 3 through out1 and reads 3 through out2.
C37_Witness ==
    /\ neg_pc = "updated"
    /\ neg_via = <<"out1">>
    /\ neg_out["frame_size"] = <<1>>
    /\ neg_pout["out1"]["frame_size"] = <<3>>
    /\ neg_pout["out2"]["frame_size"] = <<3>>

\* The checks of setup in the order in which they are made.
CheckOrder ==
    <<"required", "sampling_rate", "channel_count", "frame_size", "type">>

\* Whether the input contexts as given fail a check taken by itself.
FailsCheck(name) ==
    CASE name = "required" -> RequiredKeyMissing
      [] name = "sampling_rate" ->
            Cardinality({neg_in0[p]["sampling_rate"] :
                            p \in {q \in Range(neg_ports) :
                                      Has(neg_in0[q], "sampling_rate")}}) # 1
      [] name = "channel_count" ->
            Cardinality({neg_in0[p]["channel_count"] :
                            p \in {q \in Range(neg_ports) :
                                      Has(neg_in0[q], "channel_count")}}
                        \cup {<<1>>}) > 2
      [] name = "frame_size" -> Conflict("frame_size")
      [] name = "type" -> TypeConflict

\* The check an error of setup belongs to.
CheckOf(result) ==
    IF result \in {"channel_count_missing", "frame_size_missing"}
    THEN "required" ELSE result

\* The largest channel count declared, 1 included.
BroadcastMaximum ==
    SetMax({1} \cup {neg_in0[p]["channel_count"][1] :
                        p \in {q \in Range(neg_ports) :
                                  Has(neg_in0[q], "channel_count")}})

\* The input contexts with every declared channel count rewritten to the
\* broadcast maximum and nothing else changed.
Rewritten ==
    [p \in Range(neg_ports) |->
        [key \in ContextKeys |->
            IF key = "channel_count" /\ Has(neg_in0[p], key)
            THEN <<BroadcastMaximum>> ELSE neg_in0[p][key]]]

\* C38: the checks are made in the order required keys, sampling rate,
\* channel count, frame size, type, and the first that fails decides the
\* error; a failure on required keys, sampling rate or channel count leaves
\* every input context as it was, and from the frame-size check on the
\* declared channel counts have been rewritten to the broadcast maximum,
\* also when setup then fails on frame size or type.
C38_CheckOrder ==
    neg_pc = "done" =>
        /\ neg_result = "ok" <=> \A i \in 1..Len(CheckOrder) :
                                    ~FailsCheck(CheckOrder[i])
        /\ neg_result # "ok" =>
              \E i \in 1..Len(CheckOrder) :
                 /\ CheckOf(neg_result) = CheckOrder[i]
                 /\ FailsCheck(CheckOrder[i])
                 /\ \A j \in 1..(i - 1) : ~FailsCheck(CheckOrder[j])
        /\ CheckOf(neg_result) \in {"required", "sampling_rate", "channel_count"}
              => neg_in = neg_in0
        /\ neg_result \in {"frame_size", "type", "ok"} => neg_in = Rewritten

\* Setup failed on the frame size after rewriting the channel count of in1
\* from 1 to 4.
C38_Witness ==
    /\ neg_pc = "done"
    /\ neg_result = "frame_size"
    /\ Len(neg_ports) = 2
    /\ neg_in0["in1"]["channel_count"] = <<1>>
    /\ neg_in0["in2"]["channel_count"] = <<4>>
    /\ neg_in["in1"]["channel_count"] = <<4>>
    /\ FailsCheck("type")

\* Setup failed on the sampling rate although channel counts, frame sizes
\* and types are in conflict too; the input contexts are as they were.
C38_WitnessEarly ==
    /\ neg_pc = "done"
    /\ neg_result = "sampling_rate"
    /\ FailsCheck("channel_count")
    /\ FailsCheck("frame_size")
    /\ FailsCheck("type")
    /\ neg_in = neg_in0

-----------------------------------------------------------------------------
\* The number of rows of the first n blocks of a sequence of written blocks.
RECURSIVE RowsBefore(_, _)
RowsBefore(written, n) ==
    IF n = 0 THEN 0
    ELSE RowsBefore(written, n - 1) + written[n].block.rows

\* Everything written so far, file after file.
RECURSIVE WrittenUpTo(_)
WrittenUpTo(f) == IF f = 0 THEN <<>> ELSE WrittenUpTo(f - 1) \o fw_files[f]

AllWritten == WrittenUpTo(Len(fw_files))

\* The blocks are written in the order in which step() enqueued them.
WrittenInEnqueueOrder ==
    \A k \in 1..Len(AllWritten) : AllWritten[k].block = fw_enq[k]

\* In a sequence of written blocks the header comes with the first block
\* only and the row indices run from 0 on without gap or repeat.
HeaderOnceIndicesFromZero(written) ==
    \A k \in 1..Len(written) :
        /\ written[k].header <=> (k = 1)
        /\ written[k].start_idx = RowsBefore(written, k - 1)

\* C39: the blocks are written in enqueue order, and in every file opened
\* by a start(), the first as well as one opened after a stop(), the header
\* is written once, with the first block of the file, and the row indices
\* are the consecutive integers from 0 on.
C39_FileWriterOutputOrder ==
    /\ WrittenInEnqueueOrder
    /\ \A f \in 1..Len(fw_files) : HeaderOnceIndicesFromZero(fw_files[f])

\* What holds of C39: enqueue order, and header and row indices as if all
\* files were one: the header comes with the first block ever written, and
\* the indices of a later file go on where the file before ended.
C39_OutputOrderOverAllFiles ==
    /\ WrittenInEnqueueOrder
    /\ HeaderOnceIndicesFromZero(AllWritten)
    /\ fw_dropped = 0

\* Two files, each with a block written to it.
C39_SecondFileWritten ==
    /\ Len(fw_files) = 2
    /\ fw_files[1] # <<>>
    /\ fw_files[2] # <<>>
    /\ ~fw_files[2][1].header
    /\ fw_files[2][1].start_idx > 0

=============================================================================
